---- MODULE Spec2Model ----
(***************************************************************************)
(* Inventory ledger (documents and inventory movements) and the Rial       *)
(* cardex (moving weighted average valuation) of mohsenv/inv25.            *)
(*                                                                         *)
(* Numbers.  Quantities and unit prices are integers here.  The code       *)
(* computes in IEEE doubles; the quotient balanceTotalPrice /              *)
(* balanceQuantity is kept exact as a reduced fraction [num, den], so the  *)
(* model follows the arithmetic of the code without its rounding error.    *)
(***************************************************************************)
EXTENDS Integers, Sequences, FiniteSets, TLC

VARIABLES
    documents,          \* Document collection, in insertion order
    movements,          \* InventoryMovement collection, in insertion order
    response,           \* outcome of the last resolver call
    unsaved,            \* a Document instance before its save()
    fetched,            \* reports page: result of the getDocuments query
    selectedProduct,    \* reports page: productId passed to calculateRialCardex
    pc,                 \* position inside calculateRialCardex
    cardexEntries,      \* local array cardexEntries (after the sort)
    balanceQuantity,    \* local balanceQuantity
    balanceTotalPrice,  \* local balanceTotalPrice (a fraction)
    processedEntries,   \* local array processedEntries
    rialCardexData,     \* React state rialCardexData
    calls,              \* reports page: the calculateRialCardex calls made so far
    companies,          \* Company collection
    callers,            \* each createOrUpdateCompany call in flight: its position
    calStep,            \* calendar layer: which call has been made last
    givenDate,          \* argument of gregorianToJalaali
    jalaaliDate,        \* value gregorianToJalaali returned
    gregorianDate,      \* value jalaaliToGregorian returned
    persianDateStr,     \* argument of parsePersianDate / validatePersianDate
    parsedDate,         \* value parsePersianDate returned
    isValidDate,        \* value validatePersianDate returned
    persianYear,        \* argument of getPersianMonthDays / getPersianYearBoundaries
    persianMonth,       \* argument of getPersianMonthDays
    monthDays,          \* value getPersianMonthDays returned
    yearBoundaries,     \* value getPersianYearBoundaries returned
    lastDayOfMonth,     \* value getLastDayOfPersianMonth returned
    fiscalYear          \* start and end date a fiscal-year helper has set

ledgerVars == <<documents, movements, response, unsaved>>
cardexVars == <<fetched, selectedProduct, pc, cardexEntries, balanceQuantity,
                balanceTotalPrice, processedEntries, rialCardexData, calls>>
companyVars == <<companies, callers>>
calendarVars == <<calStep, givenDate, jalaaliDate, gregorianDate, persianDateStr,
                  parsedDate, isValidDate, persianYear, persianMonth, monthDays,
                  yearBoundaries, lastDayOfMonth, fiscalYear>>
vars == <<documents, movements, response, unsaved, fetched, selectedProduct, pc,
          cardexEntries, balanceQuantity, balanceTotalPrice, processedEntries,
          rialCardexData, calls, companies, callers, calStep, givenDate, jalaaliDate,
          gregorianDate, persianDateStr, parsedDate, isValidDate, persianYear,
          persianMonth, monthDays, yearBoundaries, lastDayOfMonth, fiscalYear>>

(***************************************************************************)
(* Bounds of the model.                                                    *)
(***************************************************************************)
MaxDocs == 2
MaxFetched == 3
MaxCompanies == 3
MaxCalls == 2
Centuries == 3

(***************************************************************************)
(* Exact arithmetic on fractions.                                          *)
(***************************************************************************)
Abs(x) == IF x < 0 THEN -x ELSE x

RECURSIVE Gcd(_, _)
Gcd(a, b) == IF b = 0 THEN a ELSE Gcd(b, a % b)

\* The fraction n/d (d # 0) in lowest terms with a positive denominator.
Frac(n, d) ==
    LET g == Gcd(Abs(n), Abs(d))
        s == IF d < 0 THEN -1 ELSE 1
    IN  [num |-> (s * n) \div g, den |-> (s * d) \div g]

FromInt(n) == [num |-> n, den |-> 1]
Zero == FromInt(0)
FAdd(a, b) == Frac(a.num * b.den + b.num * a.den, a.den * b.den)
FSub(a, b) == Frac(a.num * b.den - b.num * a.den, a.den * b.den)
FMul(a, b) == Frac(a.num * b.num, a.den * b.den)
FDiv(a, b) == Frac(a.num * b.den, a.den * b.num)
FLess(a, b) == a.num * b.den < b.num * a.den

(***************************************************************************)
(* Enumerations: DocumentType (Document model) and MovementType            *)
(* (InventoryMovement model).                                              *)
(***************************************************************************)
DocumentType == {"PURCHASE_INVOICE", "SALE_INVOICE", "STOCK_ADJUSTMENT", "INITIAL_STOCK"}
MovementType == {"PURCHASE", "SALE", "ADJUSTMENT_IN", "ADJUSTMENT_OUT", "INITIAL_STOCK"}

NoId == "none"                  \* an absent (undefined / null) reference
NoDocument == [id |-> 0]        \* no Document instance

ProductIds == {"p1", "p2"}

\* The createOrUpdateCompany calls that can be in flight at once.
Callers == {"a", "b"}

\* Values of the calendar layer before any call: no Date, no Jalaali date.
NullDate == [null |-> TRUE, day |-> 0]
NoJalaali == [jy |-> 0, jm |-> 0, jd |-> 0]
NoBoundaries == [start |-> NullDate, end |-> NullDate]

CalendarIdle ==
    /\ calStep = "idle"
    /\ givenDate = NullDate
    /\ jalaaliDate = NoJalaali
    /\ gregorianDate = NullDate
    /\ persianDateStr = <<>>
    /\ parsedDate = NullDate
    /\ isValidDate = FALSE
    /\ persianYear = 0
    /\ persianMonth = 0
    /\ monthDays = 0
    /\ yearBoundaries = NoBoundaries
    /\ lastDayOfMonth = NullDate
    /\ fiscalYear = NoBoundaries

(***************************************************************************)
(* calculateRialCardex, reports page.                                      *)
(***************************************************************************)

\* Mutant of hasProduct: drafts are left out of the cardex.
hasProductFinalizedOnly(doc, productId) ==
    /\ doc.isFinalized
    /\ \E i \in 1..Len(doc.items) : doc.items[i].product.id = productId

\* doc.items.some(item => item.product?.id === productId)
hasProduct(doc, productId) ==
    \E i \in 1..Len(doc.items) : doc.items[i].product.id = productId

\* productDocuments = documents.filter(hasProduct)
RECURSIVE productDocuments(_, _)
productDocuments(docs, productId) ==
    IF docs = <<>> THEN <<>>
    ELSE (IF hasProduct(Head(docs), productId) THEN <<Head(docs)>> ELSE <<>>)
         \o productDocuments(Tail(docs), productId)

\* The entries one document pushes, one per item of the product.
RECURSIVE itemEntries(_, _, _)
itemEntries(doc, items, productId) ==
    IF items = <<>> THEN <<>>
    ELSE (IF Head(items).product.id = productId
          THEN << [date           |-> doc.date,
                   documentType   |-> doc.documentType,
                   documentNumber |-> doc.documentNumber,
                   quantity       |-> Head(items).quantity,
                   unitPrice      |-> Head(items).unitPrice,
                   totalPrice     |-> Head(items).totalPrice] >>
          ELSE <<>>)
         \o itemEntries(doc, Tail(items), productId)

\* productDocuments.forEach(doc => doc.items.forEach(... cardexEntries.push ...))
RECURSIVE flattenEntries(_, _)
flattenEntries(docs, productId) ==
    IF docs = <<>> THEN <<>>
    ELSE itemEntries(Head(docs), Head(docs).items, productId)
         \o flattenEntries(Tail(docs), productId)

\* Mutant of insertByDate: e goes before the entries of its own date.
RECURSIVE insertByDateBeforeTies(_, _)
insertByDateBeforeTies(e, sorted) ==
    IF sorted = <<>> THEN <<e>>
    ELSE IF Head(sorted).date < e.date
         THEN <<Head(sorted)>> \o insertByDateBeforeTies(e, Tail(sorted))
         ELSE <<e>> \o sorted

\* Insert e after every entry whose date is not later (a stable insertion).
RECURSIVE insertByDate(_, _)
insertByDate(e, sorted) ==
    IF sorted = <<>> THEN <<e>>
    ELSE IF Head(sorted).date <= e.date
         THEN <<Head(sorted)>> \o insertByDate(e, Tail(sorted))
         ELSE <<e>> \o sorted

\* Mutant of sortByDate: the candidates stay in retrieval order.
sortByDateNone(entries) == entries

\* cardexEntries.sort((a, b) => a.date - b.date): Array.prototype.sort is stable.
RECURSIVE sortByDate(_)
sortByDate(entries) ==
    IF entries = <<>> THEN <<>>
    ELSE insertByDate(entries[Len(entries)], sortByDate(SubSeq(entries, 1, Len(entries) - 1)))

\* The sorted candidates of one product.
collectEntries(docs, productId) ==
    sortByDate(flattenEntries(productDocuments(docs, productId), productId))

\* balanceQuantity > 0 ? balanceTotalPrice / balanceQuantity : 0
averageOf(qty, total) == IF qty > 0 THEN FDiv(total, FromInt(qty)) ELSE Zero

\* Mutant of issueCost: the issue is costed at the document's own unit price.
issueCostAtDocumentPrice(outQuantity, qty, total, entry) ==
    FromInt(outQuantity * entry.unitPrice)

\* averagePrice = balanceQuantity > 0 ? balanceTotalPrice / balanceQuantity : 0;
\* outTotalPrice = outQuantity * averagePrice
issueCost(outQuantity, qty, total, entry) ==
    FMul(FromInt(outQuantity), averageOf(qty, total))

\* Mutant of clampQuantity: no floor.
clampQuantityNone(q) == q

\* if (balanceQuantity < 0) balanceQuantity = 0
clampQuantity(q) == IF q < 0 THEN 0 ELSE q

\* Mutant of clampTotalPrice: no floor.
clampTotalPriceNone(t) == t

\* if (balanceTotalPrice < 0) balanceTotalPrice = 0
clampTotalPrice(t) == IF FLess(t, Zero) THEN Zero ELSE t

\* Mutant of processEntry: a STOCK_ADJUSTMENT line is booked as a receipt.
processEntryAdjustmentIn(qty, total, entry) ==
    LET isIncoming == entry.documentType \in {"INITIAL_STOCK", "PURCHASE_INVOICE", "STOCK_ADJUSTMENT"}
        isOutgoing == entry.documentType = "SALE_INVOICE"
        inQuantity == IF isIncoming THEN Abs(entry.quantity) ELSE 0
        inUnitPrice == IF isIncoming THEN entry.unitPrice ELSE 0
        inTotalPrice == IF isIncoming THEN Abs(entry.totalPrice) ELSE 0
        outQuantity == IF isOutgoing THEN Abs(entry.quantity) ELSE 0
        outUnitPrice == IF isOutgoing THEN entry.unitPrice ELSE 0
        outTotalPrice == IF isOutgoing THEN issueCost(outQuantity, qty, total, entry) ELSE Zero
        q1 == IF isIncoming THEN qty + inQuantity
              ELSE IF isOutgoing THEN qty - outQuantity ELSE qty
        t1 == IF isIncoming THEN FAdd(total, FromInt(inTotalPrice))
              ELSE IF isOutgoing THEN FSub(total, outTotalPrice) ELSE total
        q2 == IF isOutgoing THEN clampQuantity(q1) ELSE q1
        t2 == IF isOutgoing THEN clampTotalPrice(t1) ELSE t1
    IN  [date              |-> entry.date,
         documentType      |-> entry.documentType,
         documentNumber    |-> entry.documentNumber,
         inQuantity        |-> inQuantity,
         inUnitPrice       |-> inUnitPrice,
         inTotalPrice      |-> inTotalPrice,
         outQuantity       |-> outQuantity,
         outUnitPrice      |-> outUnitPrice,
         outTotalPrice     |-> outTotalPrice,
         balanceQuantity   |-> q2,
         balanceUnitPrice  |-> averageOf(q2, t2),
         balanceTotalPrice |-> t2]

\* One pass of the forEach body: the row pushed for `entry` when the running
\* balance before it is (qty, total).
processEntry(qty, total, entry) ==
    LET isIncoming == entry.documentType \in {"INITIAL_STOCK", "PURCHASE_INVOICE"}
        isOutgoing == entry.documentType = "SALE_INVOICE"
        inQuantity == IF isIncoming THEN Abs(entry.quantity) ELSE 0
        inUnitPrice == IF isIncoming THEN entry.unitPrice ELSE 0
        inTotalPrice == IF isIncoming THEN Abs(entry.totalPrice) ELSE 0
        outQuantity == IF isOutgoing THEN Abs(entry.quantity) ELSE 0
        outUnitPrice == IF isOutgoing THEN entry.unitPrice ELSE 0
        outTotalPrice == IF isOutgoing THEN issueCost(outQuantity, qty, total, entry) ELSE Zero
        q1 == IF isIncoming THEN qty + inQuantity
              ELSE IF isOutgoing THEN qty - outQuantity ELSE qty
        t1 == IF isIncoming THEN FAdd(total, FromInt(inTotalPrice))
              ELSE IF isOutgoing THEN FSub(total, outTotalPrice) ELSE total
        q2 == IF isOutgoing THEN clampQuantity(q1) ELSE q1
        t2 == IF isOutgoing THEN clampTotalPrice(t1) ELSE t1
    IN  [date              |-> entry.date,
         documentType      |-> entry.documentType,
         documentNumber    |-> entry.documentNumber,
         inQuantity        |-> inQuantity,
         inUnitPrice       |-> inUnitPrice,
         inTotalPrice      |-> inTotalPrice,
         outQuantity       |-> outQuantity,
         outUnitPrice      |-> outUnitPrice,
         outTotalPrice     |-> outTotalPrice,
         balanceQuantity   |-> q2,
         balanceUnitPrice  |-> averageOf(q2, t2),
         balanceTotalPrice |-> t2]

\* The whole loop over the sorted entries, from the running balance (qty, total).
RECURSIVE processAll(_, _, _)
processAll(qty, total, entries) ==
    IF entries = <<>> THEN <<>>
    ELSE LET row == processEntry(qty, total, Head(entries))
         IN  <<row>> \o processAll(row.balanceQuantity, row.balanceTotalPrice, Tail(entries))

\* The rows calculateRialCardex hands to setRialCardexData.
calculateRialCardex(productId, docs) ==
    processAll(0, Zero, collectEntries(docs, productId))

\* One bucket of calculateProductMovements after adding (quantity, totalPrice).
addToBucket(bucket, quantity, totalPrice) ==
    LET q == bucket.quantity + quantity
        t == bucket.totalPrice + totalPrice
    IN  [quantity |-> q, totalPrice |-> t,
         unitPrice |-> IF q > 0 THEN Frac(t, q) ELSE Zero]

emptyBucket == [quantity |-> 0, unitPrice |-> Zero, totalPrice |-> 0]

\* The three buckets after the entries of the product, in document order.
RECURSIVE sumMovements(_, _)
sumMovements(m, entries) ==
    IF entries = <<>> THEN m
    ELSE LET e == Head(entries)
             quantity == Abs(e.quantity)
             totalPrice == Abs(e.totalPrice)
             m1 == IF e.documentType = "INITIAL_STOCK"
                   THEN [m EXCEPT !.initialStock = addToBucket(@, quantity, totalPrice)]
                   ELSE IF e.documentType = "PURCHASE_INVOICE"
                   THEN [m EXCEPT !.incoming = addToBucket(@, quantity, totalPrice)]
                   ELSE IF e.documentType = "SALE_INVOICE"
                   THEN [m EXCEPT !.outgoing = addToBucket(@, quantity, totalPrice)]
                   ELSE m
         IN  sumMovements(m1, Tail(entries))

\* calculateProductMovements(productId) over the page's documents.
calculateProductMovements(productId, docs) ==
    LET m == sumMovements([initialStock |-> emptyBucket, incoming |-> emptyBucket,
                           outgoing |-> emptyBucket],
                          flattenEntries(productDocuments(docs, productId), productId))
        q == m.initialStock.quantity + m.incoming.quantity - m.outgoing.quantity
        t == m.initialStock.totalPrice + m.incoming.totalPrice - m.outgoing.totalPrice
    IN  [initialStock |-> m.initialStock, incoming |-> m.incoming, outgoing |-> m.outgoing,
         balance |-> [quantity |-> q, totalPrice |-> t,
                      unitPrice |-> IF q > 0 THEN Frac(t, q) ELSE Zero]]

(***************************************************************************)
(* The cardex computation, step by step, over a fetched document list.     *)
(***************************************************************************)
Dates == {1, 2, 3}

\* A line item as getDocuments returns it (processDocumentItem).
fetchedItem(productId, quantity, unitPrice) ==
    [product |-> [id |-> productId], quantity |-> quantity, unitPrice |-> unitPrice,
     totalPrice |-> quantity * unitPrice]

\* The documents a query result is made of: their type and line items.
FetchableDocs ==
    { <<"INITIAL_STOCK",    <<fetchedItem("p1", 10, 100)>> >>,
      <<"PURCHASE_INVOICE", <<fetchedItem("p1", 10, 200)>> >>,
      <<"SALE_INVOICE",     <<fetchedItem("p1", 5, 100)>> >>,
      <<"SALE_INVOICE",     <<fetchedItem("p1", 5, 300)>> >>,
      <<"STOCK_ADJUSTMENT", <<fetchedItem("p1", 5, 100)>> >>,
      <<"SALE_INVOICE",     <<fetchedItem("p2", 5, 100), fetchedItem("p1", 25, 100)>> >>,
      <<"PURCHASE_INVOICE", <<fetchedItem("p1", 5, 200), fetchedItem("p1", 10, 100)>> >> }

FetchableShapes == FetchableDocs \X Dates

DocNumberAt == <<"D1", "D2", "D3", "D4", "D5">>

RECURSIVE SumTotalPrice(_)
SumTotalPrice(items) ==
    IF items = <<>> THEN 0 ELSE Head(items).totalPrice + SumTotalPrice(Tail(items))

\* The i-th document of a query result of the given shapes.
fetchedDoc(i, shape) ==
    [id             |-> i,
     documentType   |-> shape[1][1],
     documentNumber |-> DocNumberAt[i],
     date           |-> shape[2],
     isFinalized    |-> (shape[1][1] = "INITIAL_STOCK"),
     totalAmount    |-> SumTotalPrice(shape[1][2]),
     items          |-> shape[1][2]]

\* Document.find(filter).sort({ date: -1 }): latest document first.
IsDateDescending(docs) ==
    \A i \in 1..(Len(docs) - 1) : docs[i].date >= docs[i + 1].date

\* Every result getDocuments can return with at most MaxFetched documents.
FetchedLists ==
    UNION { { [i \in 1..n |-> fetchedDoc(i, f[i])] :
              f \in { g \in [1..n -> FetchableShapes] :
                        \A i \in 1..(n - 1) : g[i][2] >= g[i + 1][2] } } :
            n \in 0..MaxFetched }

NoResponse == [op |-> "none", ok |-> TRUE, error |-> "none", value |-> "none"]

CardexInit ==
    /\ documents = <<>>
    /\ movements = <<>>
    /\ response = NoResponse
    /\ unsaved = NoDocument
    /\ fetched \in FetchedLists
    /\ selectedProduct \in ProductIds
    /\ pc = "query"
    /\ cardexEntries = <<>>
    /\ balanceQuantity = 0
    /\ balanceTotalPrice = Zero
    /\ processedEntries = <<>>
    /\ rialCardexData = <<>>
    /\ calls = <<>>
    /\ companies = <<>>
    /\ callers = [c \in Callers |-> "idle"]
    /\ CalendarIdle

\* The query has answered: filter, flatten, sort; the balance starts at zero.
CollectEntries ==
    /\ pc = "query"
    /\ cardexEntries' = collectEntries(fetched, selectedProduct)
    /\ balanceQuantity' = 0
    /\ balanceTotalPrice' = Zero
    /\ processedEntries' = <<>>
    /\ pc' = "loop"
    /\ UNCHANGED <<fetched, selectedProduct, rialCardexData, calls>>
    /\ UNCHANGED <<ledgerVars, companyVars, calendarVars>>

\* One iteration of cardexEntries.forEach.
ProcessNextEntry ==
    /\ pc = "loop"
    /\ Len(processedEntries) < Len(cardexEntries)
    /\ LET row == processEntry(balanceQuantity, balanceTotalPrice,
                               cardexEntries[Len(processedEntries) + 1])
       IN  /\ balanceQuantity' = row.balanceQuantity
           /\ balanceTotalPrice' = row.balanceTotalPrice
           /\ processedEntries' = Append(processedEntries, row)
    /\ UNCHANGED <<fetched, selectedProduct, pc, cardexEntries, rialCardexData, calls>>
    /\ UNCHANGED <<ledgerVars, companyVars, calendarVars>>

\* setRialCardexData(processedEntries)
PublishCardex ==
    /\ pc = "loop"
    /\ Len(processedEntries) = Len(cardexEntries)
    /\ rialCardexData' = processedEntries
    /\ pc' = "done"
    /\ UNCHANGED <<fetched, selectedProduct, cardexEntries, balanceQuantity,
                   balanceTotalPrice, processedEntries, calls>>
    /\ UNCHANGED <<ledgerVars, companyVars, calendarVars>>

CardexNext == CollectEntries \/ ProcessNextEntry \/ PublishCardex

CardexSpec == CardexInit /\ [][CardexNext]_vars

(***************************************************************************)
(* The reports page: the product Select and the calculateRialCardex calls  *)
(* it starts.  A call runs up to its await, and from the answer of the     *)
(* query to its return, without interruption; calls interleave only at the *)
(* await.                                                                  *)
(***************************************************************************)
PageInit ==
    /\ documents = <<>>
    /\ movements = <<>>
    /\ response = NoResponse
    /\ unsaved = NoDocument
    /\ fetched \in FetchedLists
    /\ selectedProduct = NoId
    /\ pc = "idle"
    /\ cardexEntries = <<>>
    /\ balanceQuantity = 0
    /\ balanceTotalPrice = Zero
    /\ processedEntries = <<>>
    /\ rialCardexData = <<>>
    /\ calls = <<>>
    /\ companies = <<>>
    /\ callers = [c \in Callers |-> "idle"]
    /\ CalendarIdle

\* Select onValueChange(value): setSelectedProduct(value), then either
\* calculateRialCardex(value) up to its await (setRialCardexData([]), the
\* query is sent) or, for the empty value, setRialCardexData([]).
SelectProduct(value) ==
    /\ selectedProduct' = value
    /\ rialCardexData' = <<>>
    /\ IF value # NoId
       THEN /\ Len(calls) < MaxCalls
            /\ calls' = Append(calls, [productId |-> value, at |-> "await"])
       ELSE calls' = calls
    /\ UNCHANGED <<fetched, pc, cardexEntries, balanceQuantity, balanceTotalPrice,
                   processedEntries>>
    /\ UNCHANGED <<ledgerVars, companyVars, calendarVars>>

\* The query of call i answers: the rest of the try block runs and ends with
\* setRialCardexData(processedEntries).
QueryAnswers(i) ==
    /\ calls[i].at = "await"
    /\ rialCardexData' = calculateRialCardex(calls[i].productId, fetched)
    /\ calls' = [calls EXCEPT ![i].at = "returned"]
    /\ UNCHANGED <<fetched, selectedProduct, pc, cardexEntries, balanceQuantity,
                   balanceTotalPrice, processedEntries>>
    /\ UNCHANGED <<ledgerVars, companyVars, calendarVars>>

\* The query of call i fails: the catch block sets the error text only.
QueryFails(i) ==
    /\ calls[i].at = "await"
    /\ calls' = [calls EXCEPT ![i].at = "failed"]
    /\ UNCHANGED <<fetched, selectedProduct, pc, cardexEntries, balanceQuantity,
                   balanceTotalPrice, processedEntries, rialCardexData>>
    /\ UNCHANGED <<ledgerVars, companyVars, calendarVars>>

PageNext ==
    \/ \E value \in ProductIds \cup {NoId} : SelectProduct(value)
    \/ \E i \in 1..Len(calls) : QueryAnswers(i)
    \/ \E i \in 1..Len(calls) : QueryFails(i)

PageSpec == PageInit /\ [][PageNext]_vars

(***************************************************************************)
(* The document ledger: resolvers createDocument, updateDocument and       *)
(* finalizeDocument over the Document and InventoryMovement collections.   *)
(* A stored document is                                                    *)
(*   [id, documentType, documentNumber, supplier, customer, items,         *)
(*    totalAmount, date, isFinalized, isActive]                            *)
(* with items a sequence of [product, quantity, unitPrice, totalPrice];    *)
(* description and the timestamps are left out.  isActive is "undefined"   *)
(* while the stored document has no such key.                              *)
(***************************************************************************)

itemInput(productId, quantity, unitPrice) ==
    [productId |-> productId, quantity |-> quantity, unitPrice |-> unitPrice]

\* Number and date of the documents a caller sends: numbered in date order.
InputStamps == { <<"N1", 1>>, <<"N2", 2>> }

\* Item lists a caller sends to createDocument: a valid one, none, a zero
\* quantity, a negative price.
CreateItemLists ==
    { <<itemInput("p1", 2, 5), itemInput("p2", 3, 4)>>,
      <<>>,
      <<itemInput("p1", 0, 5)>>,
      <<itemInput("p1", 2, 5), itemInput("p2", 3, -1)>> }

\* Item lists a caller sends to updateDocument.
UpdateItemLists == { <<itemInput("p1", 4, 5)>>, <<>> }

\* DocumentInput of the GraphQL schema.  A supplier is sent with purchase
\* invoices only and a customer with sale invoices only, or not at all.
DocumentInputs(types, itemLists) ==
    { [documentType   |-> t,
       documentNumber |-> st[1],
       supplierId     |-> sup,
       customerId     |-> cus,
       items          |-> its,
       date           |-> st[2]] :
        t \in types, st \in InputStamps, sup \in {NoId, "s1"}, cus \in {NoId, "c1"},
        its \in itemLists }

PartySent(input) ==
    /\ input.supplierId # NoId => input.documentType = "PURCHASE_INVOICE"
    /\ input.customerId # NoId => input.documentType = "SALE_INVOICE"

CreateInputs == { input \in DocumentInputs(DocumentType, CreateItemLists) : PartySent(input) }
UpdateInputs ==
    { input \in DocumentInputs({"SALE_INVOICE"}, UpdateItemLists) :
        input.supplierId = NoId /\ input.customerId = NoId }

\* /^[0-9a-fA-F]{24}$/: the ids of the model that have the ObjectId format.
isObjectId(id) == id \in ProductIds

\* Input validation of createDocument: the error it throws, or "none".
validateInput(input) ==
    IF Len(input.items) = 0 THEN "ITEMS_REQUIRED"
    ELSE LET bad == { i \in 1..Len(input.items) :
                        \/ input.items[i].productId = NoId
                        \/ input.items[i].quantity <= 0
                        \/ input.items[i].unitPrice < 0 }
             first == CHOOSE i \in bad : \A j \in bad : i <= j
         IN  IF bad = {} THEN "none"
             ELSE IF input.items[first].productId = NoId THEN "PRODUCT_ID_REQUIRED"
             ELSE IF input.items[first].quantity <= 0 THEN "QUANTITY_NOT_POSITIVE"
             ELSE "UNIT_PRICE_NEGATIVE"

\* input.items.map(item => ({product, quantity, unitPrice, totalPrice}))
documentItems(input) ==
    [i \in 1..Len(input.items) |->
        [product    |-> input.items[i].productId,
         quantity   |-> input.items[i].quantity,
         unitPrice  |-> input.items[i].unitPrice,
         totalPrice |-> input.items[i].quantity * input.items[i].unitPrice]]

\* Mutant of validateParty: the party is not checked.
validatePartyNone(input) == "none"

\* Supplier / customer requirement of createDocument.
validateParty(input) ==
    IF input.documentType = "PURCHASE_INVOICE" /\ input.supplierId = NoId
    THEN "SUPPLIER_REQUIRED"
    ELSE IF input.documentType = "SALE_INVOICE" /\ input.customerId = NoId
    THEN "CUSTOMER_REQUIRED"
    ELSE "none"

\* DocumentSchema validation of a whole document (save).  The validators of
\* supplier and customer are not run on an absent value and accept any
\* present one, so they reject nothing.
documentValid(doc) ==
    /\ doc.documentType \in DocumentType
    /\ Len(doc.items) > 0
    /\ \A i \in 1..Len(doc.items) :
          /\ doc.items[i].quantity >= 1
          /\ doc.items[i].unitPrice >= 0
          /\ doc.items[i].totalPrice >= 0
    /\ doc.totalAmount >= 0

\* The two pre('save') hooks, in the order they are registered: the total
\* amount from the item totals as they stand, then the item totals.
preSave(doc) ==
    LET withTotal == IF Len(doc.items) > 0
                     THEN [doc EXCEPT !.totalAmount = SumTotalPrice(doc.items)]
                     ELSE doc
    IN  [withTotal EXCEPT !.items =
            [i \in 1..Len(doc.items) |->
                [doc.items[i] EXCEPT !.totalPrice =
                    doc.items[i].quantity * doc.items[i].unitPrice]]]

\* Mutant of uniqueIndexFree: the unique index is missing.
uniqueIndexNone(docs, id, documentType, documentNumber) == TRUE

\* index({ documentNumber: 1, documentType: 1 }, { unique: true }): no
\* document other than `id` holds the pair.
uniqueIndexFree(docs, id, documentType, documentNumber) ==
    \A i \in 1..Len(docs) :
        docs[i].id # id =>
            ~(docs[i].documentType = documentType /\ docs[i].documentNumber = documentNumber)

\* Mutant of movementTypeOf: the initial stock is booked as a purchase.
movementTypeMixed(documentType) ==
    IF documentType = "INITIAL_STOCK" THEN "PURCHASE"
    ELSE IF documentType = "PURCHASE_INVOICE" THEN "PURCHASE"
    ELSE IF documentType = "SALE_INVOICE" THEN "SALE" ELSE "ADJUSTMENT_IN"

\* The movement type createDocument derives from the document type.
movementTypeOf(documentType) ==
    IF documentType = "INITIAL_STOCK" THEN "INITIAL_STOCK"
    ELSE IF documentType = "PURCHASE_INVOICE" THEN "PURCHASE"
    ELSE IF documentType = "SALE_INVOICE" THEN "SALE" ELSE "ADJUSTMENT_IN"

\* The signed quantity createDocument derives.
movementQuantity(documentType, quantity) ==
    IF documentType \in {"INITIAL_STOCK", "PURCHASE_INVOICE"} THEN Abs(quantity)
    ELSE IF documentType = "SALE_INVOICE" THEN -Abs(quantity) ELSE quantity

\* The movement createDocument writes for one input item.
movementOf(input, item, documentId) ==
    LET quantity == movementQuantity(input.documentType, item.quantity)
    IN  [product      |-> item.productId,
         movementType |-> movementTypeOf(input.documentType),
         quantity     |-> quantity,
         unitPrice    |-> item.unitPrice,
         totalPrice   |-> Abs(quantity) * item.unitPrice,
         document     |-> documentId,
         date         |-> input.date]

\* InventoryMovementSchema validation: the sign of quantity by movement type,
\* the enum, unitPrice >= 0.
movementValid(m) ==
    /\ m.movementType \in MovementType
    /\ IF m.movementType \in {"SALE", "ADJUSTMENT_OUT"} THEN m.quantity < 0 ELSE m.quantity > 0
    /\ m.unitPrice >= 0

\* InventoryMovementSchema.pre('save')
movementPreSave(m) == [m EXCEPT !.totalPrice = Abs(m.quantity) * m.unitPrice]

\* What the caller of a resolver sees: the call, whether it returned (ok) or
\* threw, the error thrown ("none" when it returned) and the kind of value
\* returned ("document", or "true" / "false" from deleteDocument).
Reply(op, error, id) ==
    [op |-> op, ok |-> (error = "none"), error |-> error,
     value |-> IF error = "none" THEN "document" ELSE "none"]

\* A resolver call that throws before it writes anything.
Reject(op, error, id) ==
    /\ response' = Reply(op, error, id)
    /\ UNCHANGED <<documents, movements>>

\* Mutant of newDocument: every document starts as a draft.
newDocumentDraft(input, id) ==
    [id             |-> id,
     documentType   |-> input.documentType,
     documentNumber |-> input.documentNumber,
     supplier       |-> input.supplierId,
     customer       |-> input.customerId,
     items          |-> documentItems(input),
     totalAmount    |-> SumTotalPrice(documentItems(input)),
     date           |-> input.date,
     isFinalized    |-> FALSE,
     isActive       |-> "undefined"]

\* The document createDocument hands to Document.create.  DocumentSchema has no
\* isActive path, so no stored document carries a value for it.
newDocument(input, id) ==
    [id             |-> id,
     documentType   |-> input.documentType,
     documentNumber |-> input.documentNumber,
     supplier       |-> input.supplierId,
     customer       |-> input.customerId,
     items          |-> documentItems(input),
     totalAmount    |-> SumTotalPrice(documentItems(input)),
     date           |-> input.date,
     isFinalized    |-> (input.documentType = "INITIAL_STOCK"),
     isActive       |-> "undefined"]

\* createDocument(input).  failAt is the item whose InventoryMovement.create is
\* rejected by the database (0: none is); a movement the schema finds invalid
\* is rejected as well.  The loop stops at the first rejected write and throws;
\* nothing written before it is undone.
createDocument(input, failAt) ==
    LET id == Len(documents) + 1
        doc == newDocument(input, id)
        all == [i \in 1..Len(input.items) |-> movementOf(input, input.items[i], id)]
        failing == { i \in 1..Len(all) : i = failAt \/ ~movementValid(all[i]) }
        stop == IF failing = {} THEN Len(all) + 1
                ELSE CHOOSE i \in failing : \A j \in failing : i <= j
    IN  IF validateInput(input) # "none"
        THEN Reject("createDocument", validateInput(input), 0)
        ELSE IF \E i \in 1..Len(input.items) : ~isObjectId(input.items[i].productId)
        THEN Reject("createDocument", "PRODUCT_ID_INVALID", 0)
        ELSE IF validateParty(input) # "none"
        THEN Reject("createDocument", validateParty(input), 0)
        ELSE IF ~documentValid(doc)
        THEN Reject("createDocument", "VALIDATION", 0)
        ELSE IF ~uniqueIndexFree(documents, id, doc.documentType, doc.documentNumber)
        THEN Reject("createDocument", "DUPLICATE_NUMBER", 0)
        ELSE /\ Len(documents) < MaxDocs
             /\ documents' = Append(documents, preSave(doc))
             /\ movements' = movements \o
                    [i \in 1..(stop - 1) |-> movementPreSave(all[i])]
             /\ response' = Reply("createDocument",
                                  IF failing = {} THEN "none" ELSE "MOVEMENT_FAILED", id)

\* Mutant of updateData: an item total is the unit price, the quantity forgotten.
updateDataUnitTotal(input) ==
    LET processedItems ==
            [i \in 1..Len(input.items) |->
                [product    |-> input.items[i].productId,
                 quantity   |-> input.items[i].quantity,
                 unitPrice  |-> input.items[i].unitPrice,
                 totalPrice |-> input.items[i].unitPrice]]
    IN  [documentType   |-> input.documentType,
         documentNumber |-> input.documentNumber,
         date           |-> input.date,
         supplier       |-> input.supplierId,
         customer       |-> input.customerId,
         items          |-> processedItems,
         totalAmount    |-> SumTotalPrice(documentItems(input))]

\* updateData of updateDocument; items is a required field of DocumentInput.
updateData(input) ==
    LET processedItems == documentItems(input)
    IN  [documentType   |-> input.documentType,
         documentNumber |-> input.documentNumber,
         date           |-> input.date,
         supplier       |-> input.supplierId,
         customer       |-> input.customerId,
         items          |-> processedItems,
         totalAmount    |-> SumTotalPrice(processedItems)]

\* Update validators (runValidators: true) on the paths updateData sets: the
\* enum of documentType and the validator of the items array.
updateValid(data) ==
    /\ data.documentType \in DocumentType
    /\ Len(data.items) > 0
    /\ data.totalAmount >= 0

\* updateDocument(id, input): Document.findByIdAndUpdate(id, updateData).
updateDocument(id, input) ==
    LET data == updateData(input)
    IN  IF ~updateValid(data)
        THEN Reject("updateDocument", "VALIDATION", id)
        ELSE IF id \notin 1..Len(documents)
        THEN Reject("updateDocument", "NOT_FOUND", id)
        ELSE IF ~uniqueIndexFree(documents, id, data.documentType, data.documentNumber)
        THEN Reject("updateDocument", "DUPLICATE_NUMBER", id)
        ELSE /\ documents' = [documents EXCEPT ![id] =
                    [@ EXCEPT !.documentType = data.documentType,
                              !.documentNumber = data.documentNumber,
                              !.date = data.date,
                              !.supplier = data.supplier,
                              !.customer = data.customer,
                              !.items = data.items,
                              !.totalAmount = data.totalAmount]]
             /\ movements' = movements
             /\ response' = Reply("updateDocument", "none", id)

\* Mutant of finalizeDocument: the flag is flipped.
finalizeDocumentToggle(id) ==
    IF id \notin 1..Len(documents)
    THEN Reject("finalizeDocument", "NOT_FOUND", id)
    ELSE /\ documents' = [documents EXCEPT ![id].isFinalized = ~@]
         /\ movements' = movements
         /\ response' = Reply("finalizeDocument", "none", id)

\* finalizeDocument(id): Document.findByIdAndUpdate(id, { isFinalized: true }).
finalizeDocument(id) ==
    IF id \notin 1..Len(documents)
    THEN Reject("finalizeDocument", "NOT_FOUND", id)
    ELSE /\ documents' = [documents EXCEPT ![id].isFinalized = TRUE]
         /\ movements' = movements
         /\ response' = Reply("finalizeDocument", "none", id)

\* The paths of DocumentSchema an update may set; in strict mode (the default)
\* Mongoose drops every other key of an update.
DocumentPaths ==
    {"documentType", "documentNumber", "supplier", "customer", "items",
     "totalAmount", "date", "isFinalized"}

\* The update { path: value } after strict-mode casting, applied to doc.
strictSet(doc, path, value) ==
    IF path \in DocumentPaths THEN [doc EXCEPT ![path] = value] ELSE doc

\* Mutant of deleteDocument: the movements of the document are retracted.
deleteDocumentRetract(id) ==
    /\ documents' = documents
    /\ movements' = SelectSeq(movements, LAMBDA m : m.document # id)
    /\ response' = [op |-> "deleteDocument", ok |-> TRUE, error |-> "none",
                    value |-> IF id \in 1..Len(documents) THEN "true" ELSE "false"]

\* deleteDocument(id): Document.findByIdAndUpdate(id, { isActive: false });
\* returns !!document.
deleteDocument(id) ==
    /\ documents' = [i \in 1..Len(documents) |->
                        IF i = id THEN strictSet(documents[i], "isActive", "false")
                        ELSE documents[i]]
    /\ movements' = movements
    /\ response' = [op |-> "deleteDocument", ok |-> TRUE, error |-> "none",
                    value |-> IF id \in 1..Len(documents) THEN "true" ELSE "false"]

\* A product of the Product collection as populate('items.product') loads it;
\* p2 has been deactivated by deleteProduct, which keeps the record.
productObject(id) ==
    [id |-> id, code |-> IF id = "p1" THEN "C1" ELSE "C2", isActive |-> (id = "p1")]

\* The placeholder processDocumentItem starts from.
placeholderProduct == [id |-> "unknown", code |-> "DELETED", isActive |-> FALSE]

\* The id of a product whose record is gone from the Product collection.
DeletedProductId == "p0"

\* Mutant of processDocumentItem: the placeholder keeps the id the item refers to.
processDocumentItemDangling(item) ==
    [product    |-> IF item.product \in ProductIds THEN productObject(item.product)
                    ELSE [id |-> item.product, code |-> "DELETED", isActive |-> FALSE],
     quantity   |-> item.quantity,
     unitPrice  |-> item.unitPrice,
     totalPrice |-> IF item.totalPrice # 0 THEN item.totalPrice
                    ELSE item.quantity * item.unitPrice]

\* processDocumentItem: the populated product (a placeholder when the product
\* is gone) and totalPrice = item.totalPrice || quantity * unitPrice.
processDocumentItem(item) ==
    [product    |-> IF item.product \in ProductIds THEN productObject(item.product)
                    ELSE placeholderProduct,
     quantity   |-> item.quantity,
     unitPrice  |-> item.unitPrice,
     totalPrice |-> IF item.totalPrice # 0 THEN item.totalPrice
                    ELSE item.quantity * item.unitPrice]

\* The orders Document.find().sort({ date: -1 }) can return docs in: latest
\* first, documents of one date in any order.
RetrievalOrders(docs) ==
    { order \in [1..Len(docs) -> 1..Len(docs)] :
        /\ \A i, j \in 1..Len(docs) : order[i] = order[j] => i = j
        /\ \A i \in 1..(Len(docs) - 1) : docs[order[i]].date >= docs[order[i + 1]].date }

\* getDocuments without a filter, as the reports page calls it.
getDocuments(docs, order) ==
    [i \in 1..Len(docs) |->
        [docs[order[i]] EXCEPT !.items =
            [k \in 1..Len(docs[order[i]].items) |->
                processDocumentItem(docs[order[i]].items[k])]]]

DocIds == 1..MaxDocs

(***************************************************************************)
(* The cardex report over stored documents, some of whose line items refer *)
(* to a product that is gone: getDocuments, then calculateRialCardex.      *)
(***************************************************************************)
ReportItemLists ==
    { <<itemInput("p1", 2, 5)>>,
      <<itemInput(DeletedProductId, 3, 4)>>,
      <<itemInput(DeletedProductId, 3, 4), itemInput("p1", 2, 5)>>,
      <<itemInput("p2", 3, 0)>> }

ReportInputs ==
    { input \in DocumentInputs({"INITIAL_STOCK", "SALE_INVOICE"}, ReportItemLists) :
        /\ input.supplierId = NoId
        /\ input.customerId = NoId <=> input.documentType = "INITIAL_STOCK" }

\* The Document collections of up to MaxDocs documents that createDocument
\* has written, no two with the same number and type.
StoredDocumentLists ==
    UNION { { [i \in 1..n |-> preSave(newDocument(f[i], i))] :
              f \in { g \in [1..n -> ReportInputs] :
                        \A i, j \in 1..n :
                            (g[i].documentNumber = g[j].documentNumber
                               /\ g[i].documentType = g[j].documentType) => i = j } } :
            n \in 0..MaxDocs }

ReportInit ==
    /\ documents \in StoredDocumentLists
    /\ movements = <<>>
    /\ response = NoResponse
    /\ unsaved = NoDocument
    /\ fetched = <<>>
    /\ selectedProduct = NoId
    /\ pc = "idle"
    /\ cardexEntries = <<>>
    /\ balanceQuantity = 0
    /\ balanceTotalPrice = Zero
    /\ processedEntries = <<>>
    /\ rialCardexData = <<>>
    /\ calls = <<>>
    /\ companies = <<>>
    /\ callers = [c \in Callers |-> "idle"]
    /\ CalendarIdle

\* The getDocuments query of the reports page answers.
GetDocuments ==
    /\ pc = "idle"
    /\ \E order \in RetrievalOrders(documents) : fetched' = getDocuments(documents, order)
    /\ pc' = "query"
    /\ UNCHANGED <<selectedProduct, cardexEntries, balanceQuantity, balanceTotalPrice,
                   processedEntries, rialCardexData, calls>>
    /\ UNCHANGED <<ledgerVars, companyVars, calendarVars>>

\* calculateRialCardex(productId) on that answer, to its setRialCardexData.
CalculateRialCardex ==
    /\ pc = "query"
    /\ \E productId \in ProductIds :
          /\ selectedProduct' = productId
          /\ rialCardexData' = calculateRialCardex(productId, fetched)
    /\ pc' = "done"
    /\ UNCHANGED <<fetched, cardexEntries, balanceQuantity, balanceTotalPrice,
                   processedEntries, calls>>
    /\ UNCHANGED <<ledgerVars, companyVars, calendarVars>>

ReportNext == GetDocuments \/ CalculateRialCardex

ReportSpec == ReportInit /\ [][ReportNext]_vars

Init ==
    /\ documents = <<>>
    /\ movements = <<>>
    /\ response = NoResponse
    /\ unsaved = NoDocument
    /\ fetched = <<>>
    /\ selectedProduct = NoId
    /\ pc = "idle"
    /\ cardexEntries = <<>>
    /\ balanceQuantity = 0
    /\ balanceTotalPrice = Zero
    /\ processedEntries = <<>>
    /\ rialCardexData = <<>>
    /\ calls = <<>>
    /\ companies = <<>>
    /\ callers = [c \in Callers |-> "idle"]
    /\ CalendarIdle

CreateDocument ==
    /\ \E input \in CreateInputs : \E failAt \in 0..Len(input.items) :
          createDocument(input, failAt)
    /\ UNCHANGED <<unsaved, cardexVars, companyVars, calendarVars>>

UpdateDocument ==
    /\ \E id \in DocIds : \E input \in UpdateInputs : updateDocument(id, input)
    /\ UNCHANGED <<unsaved, cardexVars, companyVars, calendarVars>>

FinalizeDocument ==
    /\ \E id \in DocIds : finalizeDocument(id)
    /\ UNCHANGED <<unsaved, cardexVars, companyVars, calendarVars>>

DeleteDocument ==
    /\ \E id \in DocIds : deleteDocument(id)
    /\ UNCHANGED <<unsaved, cardexVars, companyVars, calendarVars>>

Next == CreateDocument \/ UpdateDocument \/ FinalizeDocument \/ DeleteDocument

Spec == Init /\ [][Next]_vars

(***************************************************************************)
(* Document.save() on an instance whose totals were supplied by the        *)
(* caller: validation, then the two pre('save') hooks, then the write.     *)
(***************************************************************************)
\* Line items with a supplied totalPrice: the product of quantity and unit
\* price, one more than it, and a negative one.
SuppliedItems ==
    UNION { { [product |-> "p1", quantity |-> q, unitPrice |-> 5, totalPrice |-> t] :
                t \in {q * 5, q * 5 + 1, -1} } : q \in {2, 3} }

SuppliedItemLists ==
    { <<a>> : a \in SuppliedItems } \cup { <<a, b>> : a, b \in SuppliedItems }

\* Document instances with supplied item totals and a supplied totalAmount:
\* zero, the sum of the supplied item totals, or one more than it.
UnsavedDocuments ==
    { [id             |-> 1,
       documentType   |-> "INITIAL_STOCK",
       documentNumber |-> "N1",
       supplier       |-> NoId,
       customer       |-> NoId,
       items          |-> its,
       totalAmount    |-> total,
       date           |-> 1,
       isFinalized    |-> FALSE,
       isActive       |-> "undefined"] :
        its \in SuppliedItemLists,
        total \in {0} \cup { SumTotalPrice(l) + d : l \in SuppliedItemLists, d \in {0, 1} } }

SaveInit ==
    /\ documents = <<>>
    /\ movements = <<>>
    /\ response = NoResponse
    /\ unsaved \in UnsavedDocuments
    /\ fetched = <<>>
    /\ selectedProduct = NoId
    /\ pc = "idle"
    /\ cardexEntries = <<>>
    /\ balanceQuantity = 0
    /\ balanceTotalPrice = Zero
    /\ processedEntries = <<>>
    /\ rialCardexData = <<>>
    /\ calls = <<>>
    /\ companies = <<>>
    /\ callers = [c \in Callers |-> "idle"]
    /\ CalendarIdle

\* unsaved.save()
SaveDocument ==
    /\ response = NoResponse
    /\ IF documentValid(unsaved)
       THEN /\ documents' = Append(documents, preSave(unsaved))
            /\ response' = Reply("save", "none", unsaved.id)
            /\ UNCHANGED movements
       ELSE Reject("save", "VALIDATION", 0)
    /\ UNCHANGED <<unsaved, cardexVars, companyVars, calendarVars>>

SaveNext == SaveDocument

SaveSpec == SaveInit /\ [][SaveNext]_vars

(***************************************************************************)
(* The company singleton: resolver createOrUpdateCompany over the Company   *)
(* collection, called concurrently.  A stored company is                    *)
(*   [id, name, isActive].                                                  *)
(***************************************************************************)
\* CompanyInput.name values a caller sends; "" fails the required validator.
CompanyNames == {"Acme", "Beta", ""}

\* Company.updateMany({}, { isActive: false })
deactivateAll(stored) == [i \in 1..Len(stored) |-> [stored[i] EXCEPT !.isActive = FALSE]]

\* CompanySchema validation of a new record.
companyValid(name) == name # ""

\* Mutant of activeIndexFree: the partial unique index is missing.
activeIndexNone(stored) == TRUE

\* index({ isActive: 1 }, { unique: true, partialFilterExpression: { isActive:
\* true } }): an active record can be inserted when none is stored.
activeIndexFree(stored) == \A i \in 1..Len(stored) : ~stored[i].isActive

\* First await of createOrUpdateCompany: every stored company is deactivated.
DeactivateCompanies(c) ==
    /\ callers[c] = "idle"
    /\ companies' = deactivateAll(companies)
    /\ callers' = [callers EXCEPT ![c] = "deactivated"]

\* Second await: Company.create({ ...input, isActive: true }) and return, or
\* the error create throws.
CreateCompany(c, name) ==
    /\ callers[c] = "deactivated"
    /\ IF companyValid(name) /\ activeIndexFree(companies)
       THEN /\ Len(companies) < MaxCompanies
            /\ companies' = Append(companies,
                   [id |-> Len(companies) + 1, name |-> name, isActive |-> TRUE])
            /\ callers' = [callers EXCEPT ![c] = "returned"]
       ELSE /\ companies' = companies
            /\ callers' = [callers EXCEPT ![c] = "threw"]

\* The caller has its answer and may call again.
CompanyCallEnds(c) ==
    /\ callers[c] \in {"returned", "threw"}
    /\ callers' = [callers EXCEPT ![c] = "idle"]
    /\ companies' = companies

CompanyInit ==
    /\ documents = <<>>
    /\ movements = <<>>
    /\ response = NoResponse
    /\ unsaved = NoDocument
    /\ fetched = <<>>
    /\ selectedProduct = NoId
    /\ pc = "idle"
    /\ cardexEntries = <<>>
    /\ balanceQuantity = 0
    /\ balanceTotalPrice = Zero
    /\ processedEntries = <<>>
    /\ rialCardexData = <<>>
    /\ calls = <<>>
    /\ companies = <<>>
    /\ callers = [c \in Callers |-> "idle"]
    /\ CalendarIdle

CompanyNext ==
    /\ \E c \in Callers :
          \/ DeactivateCompanies(c)
          \/ \E name \in CompanyNames : CreateCompany(c, name)
          \/ CompanyCallEnds(c)
    /\ UNCHANGED <<ledgerVars, cardexVars, calendarVars>>

CompanySpec == CompanyInit /\ [][CompanyNext]_vars

(***************************************************************************)
(* The Persian calendar layer: lib/persian.ts over the jalaali-js package   *)
(* and the Date object.  A Date is modelled by its local calendar day, the  *)
(* number of days since 1 January 1970; a Jalaali date is [jy, jm, jd].     *)
(***************************************************************************)
\* jalaali-js div and mod: ~~(a / b) truncates toward zero.
div(a, b) == IF a >= 0 THEN a \div b ELSE -((-a) \div b)
mod(a, b) == a - div(a, b) * b

\* jalaali-js: the years at which the 33-year rule breaks.
breaks ==
    << -61, 9, 38, 199, 426, 686, 756, 818, 1111, 1181, 1210, 1635, 2060, 2097,
       2192, 2262, 2324, 2394, 2456, 3178 >>

\* jalaali-js jalCal throws 'Invalid Jalaali year' outside this range.
validJalaaliYear(jy) == jy >= breaks[1] /\ jy < breaks[Len(breaks)]

\* The for loop of jalCal from index i on: the state [leapJ, jp, jump] it ends in.
RECURSIVE jalCalLoop(_, _, _, _, _)
jalCalLoop(jy, i, leapJ, jp, jump) ==
    IF i > Len(breaks) THEN [leapJ |-> leapJ, jp |-> jp, jump |-> jump]
    ELSE LET jm == breaks[i]
             jump1 == jm - jp
         IN  IF jy < jm THEN [leapJ |-> leapJ, jp |-> jp, jump |-> jump1]
             ELSE jalCalLoop(jy, i + 1,
                             leapJ + div(jump1, 33) * 8 + div(mod(jump1, 33), 4),
                             jm, jump1)

\* jalaali-js jalCal(jy): leap (years since the last leap year), the Gregorian
\* year gy of 1 Farvardin and its day of March.
jalCal(jy) ==
    LET gy == jy + 621
        loop == jalCalLoop(jy, 2, -14, breaks[1], 0)
        jump == loop.jump
        n == jy - loop.jp
        leapJ1 == loop.leapJ + div(n, 33) * 8 + div(mod(n, 33) + 3, 4)
        leapJ == IF mod(jump, 33) = 4 /\ jump - n = 4 THEN leapJ1 + 1 ELSE leapJ1
        leapG == div(gy, 4) - div((div(gy, 100) + 1) * 3, 4) - 150
        march == 20 + leapJ - leapG
        n1 == IF jump - n < 6 THEN n - jump + div(jump + 4, 33) * 33 ELSE n
        leap0 == mod(mod(n1 + 1, 33) - 1, 4)
        leap == IF leap0 = -1 THEN 4 ELSE leap0
    IN  [leap |-> leap, gy |-> gy, march |-> march]

\* jalaali-js isLeapJalaaliYear
isLeapJalaaliYear(jy) == jalCal(jy).leap = 0

\* jalaali-js g2d: the Julian Day Number of a Gregorian date.
g2d(gy, gm, gd) ==
    LET d == div((gy + div(gm - 8, 6) + 100100) * 1461, 4)
               + div(153 * mod(gm + 9, 12) + 2, 5) + gd - 34840408
    IN  d - div(div(gy + 100100 + div(gm - 8, 6), 100) * 3, 4) + 752

\* jalaali-js d2g: the Gregorian date of a Julian Day Number.
d2g(jdn) ==
    LET j0 == 4 * jdn + 139361631
        j == j0 + div(div(4 * jdn + 183187720, 146097) * 3, 4) * 4 - 3908
        i == div(mod(j, 1461), 4) * 5 + 308
        gd == div(mod(i, 153), 5) + 1
        gm == mod(div(i, 153), 12) + 1
        gy == div(j, 1461) - 100100 + div(8 - gm, 6)
    IN  [gy |-> gy, gm |-> gm, gd |-> gd]

\* jalaali-js j2d: the Julian Day Number of a Jalaali date.
j2d(jy, jm, jd) ==
    LET r == jalCal(jy)
    IN  g2d(r.gy, 3, r.march) + (jm - 1) * 31 - div(jm, 7) * (jm - 7) + jd - 1

\* jalaali-js d2j: the Jalaali date of a Julian Day Number.
d2j(jdn) ==
    LET gy == d2g(jdn).gy
        jy == gy - 621
        r == jalCal(jy)
        jdn1f == g2d(gy, 3, r.march)
        k == jdn - jdn1f
        k1 == IF k >= 0 THEN k - 186
              ELSE k + 179 + (IF r.leap = 1 THEN 1 ELSE 0)
    IN  IF k >= 0 /\ k <= 185
        THEN [jy |-> jy, jm |-> 1 + div(k, 31), jd |-> mod(k, 31) + 1]
        ELSE [jy |-> IF k >= 0 THEN jy ELSE jy - 1,
              jm |-> 7 + div(k1, 30),
              jd |-> mod(k1, 30) + 1]

\* jalaali-js toJalaali(gy, gm, gd) and toGregorian(jy, jm, jd)
toJalaali(gy, gm, gd) == d2j(g2d(gy, gm, gd))
toGregorian(jy, jm, jd) == d2g(j2d(jy, jm, jd))

\* Date: the day number of 1 January of year y (ECMAScript DayFromYear).
DayFromYear(y) ==
    365 * (y - 1970) + ((y - 1969) \div 4) - ((y - 1901) \div 100) + ((y - 1601) \div 400)

InLeapYear(y) == DayFromYear(y + 1) - DayFromYear(y) = 366

\* Days of the year before month m (0 = January) of year y.
DaysBeforeMonth(y, m) ==
    LET common == <<0, 31, 59, 90, 120, 151, 181, 212, 243, 273, 304, 334>>
    IN  common[m + 1] + (IF m >= 2 /\ InLeapYear(y) THEN 1 ELSE 0)

\* new Date(year, monthIndex, day) for a month index in 0..11.
NewDate(year, monthIndex, day) == DayFromYear(year) + DaysBeforeMonth(year, monthIndex) + day - 1

\* date.getFullYear(), date.getMonth(), date.getDate()
getFullYear(date) ==
    LET guess == 1970 + (date \div 366)
    IN  CHOOSE y \in (guess - 1)..(guess + 2) : DayFromYear(y) <= date /\ date < DayFromYear(y + 1)

getMonth(date) ==
    LET y == getFullYear(date)
    IN  CHOOSE m \in 0..11 :
            /\ DayFromYear(y) + DaysBeforeMonth(y, m) <= date
            /\ m < 11 => date < DayFromYear(y) + DaysBeforeMonth(y, m + 1)

getDate(date) ==
    date - (DayFromYear(getFullYear(date)) + DaysBeforeMonth(getFullYear(date), getMonth(date))) + 1

\* new Date(date.getTime() - 24 * 60 * 60 * 1000) and its opposite.
dayBefore(date) == date - 1
dayAfter(date) == date + 1

\* Mutant of gregorianToJalaali: the zero-based month is passed on as it is.
gregorianToJalaaliMonthIndex(date) == toJalaali(getFullYear(date), getMonth(date), getDate(date))

\* gregorianToJalaali(date)
gregorianToJalaali(date) == toJalaali(getFullYear(date), getMonth(date) + 1, getDate(date))

\* jalaaliToGregorian(jy, jm, jd)
jalaaliToGregorian(jy, jm, jd) ==
    LET gregorian == toGregorian(jy, jm, jd)
    IN  NewDate(gregorian.gy, gregorian.gm - 1, gregorian.gd)

\* isPersianLeapYear(year)
isPersianLeapYear(year) == isLeapJalaaliYear(year)

\* Mutant of getPersianMonthDays: Esfand has 29 days in every year.
getPersianMonthDaysNoLeap(year, month) ==
    IF month <= 6 THEN 31
    ELSE IF month <= 11 THEN 30
    ELSE 29

\* getPersianMonthDays(year, month)
getPersianMonthDays(year, month) ==
    IF month <= 6 THEN 31
    ELSE IF month <= 11 THEN 30
    ELSE IF isPersianLeapYear(year) THEN 30 ELSE 29

\* A string is a sequence of characters; "fa0" .. "fa9" stand for the Persian
\* digit glyphs of persianNumbers.
persianNumbers == <<"fa0", "fa1", "fa2", "fa3", "fa4", "fa5", "fa6", "fa7", "fa8", "fa9">>
englishNumbers == <<"0", "1", "2", "3", "4", "5", "6", "7", "8", "9">>

\* persianToEnglish(str)
persianToEnglish(str) ==
    [i \in 1..Len(str) |->
        IF \E k \in 1..10 : persianNumbers[k] = str[i]
        THEN englishNumbers[CHOOSE k \in 1..10 : persianNumbers[k] = str[i]]
        ELSE str[i]]

\* String.prototype.trim
RECURSIVE trimStart(_)
trimStart(str) ==
    IF str # <<>> /\ Head(str) = " " THEN trimStart(Tail(str)) ELSE str

RECURSIVE trimEnd(_)
trimEnd(str) ==
    IF str # <<>> /\ str[Len(str)] = " " THEN trimEnd(SubSeq(str, 1, Len(str) - 1)) ELSE str

trim(str) == trimEnd(trimStart(str))

\* str.split('/'): the parts between the separators, at least one.
RECURSIVE split(_, _)
split(str, part) ==
    IF str = <<>> THEN <<part>>
    ELSE IF Head(str) = "/" THEN <<part>> \o split(Tail(str), <<>>)
    ELSE split(Tail(str), Append(part, Head(str)))

isDigit(ch) == \E k \in 1..10 : englishNumbers[k] = ch
digitValue(ch) == (CHOOSE k \in 1..10 : englishNumbers[k] = ch) - 1

\* The longest prefix of decimal digits of str, as a number.
RECURSIVE digitsPrefix(_, _)
digitsPrefix(str, value) ==
    IF str # <<>> /\ isDigit(Head(str))
    THEN digitsPrefix(Tail(str), 10 * value + digitValue(Head(str)))
    ELSE value

\* parseInt(str): leading white space is skipped, a sign is read, then decimal
\* digits up to the first other character; NaN when there is no digit.
parseInt(str) ==
    LET unspaced == trimStart(str)
        signed == unspaced # <<>> /\ Head(unspaced) \in {"-", "+"}
        digits == IF signed THEN Tail(unspaced) ELSE unspaced
        negative == signed /\ Head(unspaced) = "-"
    IN  IF digits = <<>> \/ ~isDigit(Head(digits))
        THEN [nan |-> TRUE, value |-> 0]
        ELSE [nan |-> FALSE,
              value |-> IF negative THEN -digitsPrefix(digits, 0) ELSE digitsPrefix(digits, 0)]

\* A Date value, not null.
DateOf(day) == [null |-> FALSE, day |-> day]

\* parsePersianDate(persianDateStr).  isPersianLeapYear (month 12) and
\* jalaaliToGregorian throw on a year jalaali-js does not support; the catch
\* turns that into null.
parsePersianDate(str) ==
    LET parts == split(persianToEnglish(trim(str)), <<>>)
        jy == parseInt(parts[1])
        jm == parseInt(parts[2])
        jd == parseInt(parts[3])
    IN  IF Len(parts) # 3 THEN NullDate
        ELSE IF jy.nan \/ jm.nan \/ jd.nan THEN NullDate
        ELSE IF jm.value < 1 \/ jm.value > 12 \/ jd.value < 1 THEN NullDate
        ELSE IF ~validJalaaliYear(jy.value) THEN NullDate
        ELSE IF jd.value > getPersianMonthDays(jy.value, jm.value) THEN NullDate
        ELSE DateOf(jalaaliToGregorian(jy.value, jm.value, jd.value))

\* validatePersianDate(dateStr)
validatePersianDate(str) == ~parsePersianDate(str).null

\* Mutant of getPersianYearBoundaries: the year always ends on 29 Esfand.
getPersianYearBoundariesFixed(year) ==
    [start |-> DateOf(jalaaliToGregorian(year, 1, 1)),
     end   |-> DateOf(jalaaliToGregorian(year, 12, 29))]

\* persianDateUtils.getPersianYearBoundaries(persianYear)
getPersianYearBoundaries(year) ==
    LET lastDayOfEsfand == IF isPersianLeapYear(year) THEN 30 ELSE 29
    IN  [start |-> DateOf(jalaaliToGregorian(year, 1, 1)),
         end   |-> DateOf(jalaaliToGregorian(year, 12, lastDayOfEsfand))]

\* persianDateUtils.getLastDayOfPersianMonth(year, month): the first day of the
\* next month less 24 hours.  Dates are local midnights; the model takes the
\* day before to be 24 hours long, as it is wherever no clock change falls on it.
getLastDayOfPersianMonth(year, month) ==
    LET nextMonth == IF month = 12 THEN 1 ELSE month + 1
        nextYear  == IF month = 12 THEN year + 1 ELSE year
        firstDayNextMonth == jalaaliToGregorian(nextYear, nextMonth, 1)
    IN  DateOf(firstDayNextMonth - 1)

\* usePersianDateRange.setFiscalYear(yearOffset), called on currentDate:
\* new Date(currentYear, 2, 21) and new Date(currentYear + 1, 2, 19).
setFiscalYear(currentDate, yearOffset) ==
    LET currentYear == getFullYear(currentDate) + yearOffset
    IN  [start |-> DateOf(NewDate(currentYear, 2, 21)),
         end   |-> DateOf(NewDate(currentYear + 1, 2, 19))]

\* setPersianFiscalYear(yearOffset) of the company settings form, called on
\* currentDate.
setPersianFiscalYear(currentDate, yearOffset) ==
    LET currentPersianYear == gregorianToJalaali(currentDate).jy + yearOffset
        lastDayOfEsfand == IF isPersianLeapYear(currentPersianYear) THEN 30 ELSE 29
    IN  [start |-> DateOf(jalaaliToGregorian(currentPersianYear, 1, 1)),
         end   |-> DateOf(jalaaliToGregorian(currentPersianYear, 12, lastDayOfEsfand))]

\* The year offsets the pages pass: the date-range quick buttons pass 0 and 1,
\* the company settings buttons -1, 0 and 1.
HookYearOffsets == {0, 1}

FormYearOffsets == {-1, 0, 1}

\* The days on which a fiscal-year button is pressed: Jalaali 1402 to 1404,
\* which holds the leap year 1403.
CurrentDates == jalaaliToGregorian(1402, 1, 1)..(jalaaliToGregorian(1405, 1, 1) - 1)

\* The Jalaali years the calendar layer is exercised on, and their days.
JalaaliYears == 1200..(1200 + 100 * Centuries - 1)

GivenDates ==
    jalaaliToGregorian(1200, 1, 1)..(jalaaliToGregorian(1200 + 100 * Centuries, 1, 1) - 1)

\* parts[1] / parts[2] / ... as one string.
RECURSIVE joinParts(_)
joinParts(parts) ==
    IF Len(parts) = 1 THEN parts[1]
    ELSE parts[1] \o <<"/">> \o joinParts(Tail(parts))

\* The strings a user types into a date field: years, months and days in ASCII
\* or Persian digits, out of range, empty, or followed by another character;
\* two, three or four parts; white space around.
YearParts ==
    { <<"1", "4", "0", "3">>, <<"1", "4", "0", "2">>, <<"fa1", "fa4", "fa0", "fa3">>,
      <<"5", "0", "0", "0">>, <<"a">>, <<>> }
MonthParts ==
    { <<"1", "2">>, <<"fa1", "fa2">>, <<"1", "3">>, <<"0">>, <<"6">>, <<"7">>, <<"1", "2", "a">> }
DayParts ==
    { <<"2", "9">>, <<"3", "0">>, <<"3", "1">>, <<"fa3", "fa0">>, <<"0">>, <<"-", "1">>,
      <<"3", "0", "a">>, <<>> }

PersianDateStrings ==
    LET three == { joinParts(<<y, m, d>>) : y \in YearParts, m \in MonthParts, d \in DayParts }
        two == { joinParts(<<y, m>>) : y \in YearParts, m \in MonthParts }
        four == { joinParts(<<y, m, d, d>>) : y \in YearParts, m \in {<<"1", "2">>}, d \in DayParts }
        spaced == { <<" ">> \o str \o <<" ">> : str \in three }
    IN  three \cup two \cup four \cup spaced

\* A call into the calendar layer is about to be made: with a Date, with a
\* string, or with a year and a month.
CalendarInit ==
    /\ documents = <<>>
    /\ movements = <<>>
    /\ response = NoResponse
    /\ unsaved = NoDocument
    /\ fetched = <<>>
    /\ selectedProduct = NoId
    /\ pc = "idle"
    /\ cardexEntries = <<>>
    /\ balanceQuantity = 0
    /\ balanceTotalPrice = Zero
    /\ processedEntries = <<>>
    /\ rialCardexData = <<>>
    /\ calls = <<>>
    /\ companies = <<>>
    /\ callers = [c \in Callers |-> "idle"]
    /\ jalaaliDate = NoJalaali
    /\ gregorianDate = NullDate
    /\ parsedDate = NullDate
    /\ isValidDate = FALSE
    /\ monthDays = 0
    /\ yearBoundaries = NoBoundaries
    /\ lastDayOfMonth = NullDate
    /\ fiscalYear = NoBoundaries
    /\ \/ /\ calStep = "date"
          /\ givenDate \in { DateOf(day) : day \in GivenDates }
          /\ persianDateStr = <<>>
          /\ persianYear = 0
          /\ persianMonth = 0
       \/ /\ calStep = "string"
          /\ givenDate = NullDate
          /\ persianDateStr \in PersianDateStrings
          /\ persianYear = 0
          /\ persianMonth = 0
       \/ /\ calStep = "year"
          /\ givenDate = NullDate
          /\ persianDateStr = <<>>
          /\ persianYear \in JalaaliYears
          /\ persianMonth \in 1..12
       \/ /\ calStep = "today"
          /\ givenDate \in { DateOf(day) : day \in CurrentDates }
          /\ persianDateStr = <<>>
          /\ persianYear = 0
          /\ persianMonth = 0

GregorianToJalaali ==
    /\ calStep = "date"
    /\ jalaaliDate' = gregorianToJalaali(givenDate.day)
    /\ calStep' = "jalaali"
    /\ UNCHANGED <<givenDate, gregorianDate, persianDateStr, parsedDate, isValidDate,
                   persianYear, persianMonth, monthDays, yearBoundaries>>
    /\ UNCHANGED <<lastDayOfMonth, fiscalYear>>

JalaaliToGregorian ==
    /\ calStep = "jalaali"
    /\ gregorianDate' = DateOf(jalaaliToGregorian(jalaaliDate.jy, jalaaliDate.jm, jalaaliDate.jd))
    /\ calStep' = "gregorian"
    /\ UNCHANGED <<givenDate, jalaaliDate, persianDateStr, parsedDate, isValidDate,
                   persianYear, persianMonth, monthDays, yearBoundaries>>
    /\ UNCHANGED <<lastDayOfMonth, fiscalYear>>

ParsePersianDate ==
    /\ calStep = "string"
    /\ parsedDate' = parsePersianDate(persianDateStr)
    /\ calStep' = "parsed"
    /\ UNCHANGED <<givenDate, jalaaliDate, gregorianDate, persianDateStr, isValidDate,
                   persianYear, persianMonth, monthDays, yearBoundaries>>
    /\ UNCHANGED <<lastDayOfMonth, fiscalYear>>

ValidatePersianDate ==
    /\ calStep = "parsed"
    /\ isValidDate' = validatePersianDate(persianDateStr)
    /\ calStep' = "validated"
    /\ UNCHANGED <<givenDate, jalaaliDate, gregorianDate, persianDateStr, parsedDate,
                   persianYear, persianMonth, monthDays, yearBoundaries>>
    /\ UNCHANGED <<lastDayOfMonth, fiscalYear>>

GetPersianMonthDays ==
    /\ calStep = "year"
    /\ monthDays' = getPersianMonthDays(persianYear, persianMonth)
    /\ calStep' = "monthDays"
    /\ UNCHANGED <<givenDate, jalaaliDate, gregorianDate, persianDateStr, parsedDate,
                   isValidDate, persianYear, persianMonth, yearBoundaries>>
    /\ UNCHANGED <<lastDayOfMonth, fiscalYear>>

GetPersianYearBoundaries ==
    /\ calStep = "monthDays"
    /\ yearBoundaries' = getPersianYearBoundaries(persianYear)
    /\ calStep' = "boundaries"
    /\ UNCHANGED <<givenDate, jalaaliDate, gregorianDate, persianDateStr, parsedDate,
                   isValidDate, persianYear, persianMonth, monthDays>>
    /\ UNCHANGED <<lastDayOfMonth, fiscalYear>>

GetLastDayOfPersianMonth ==
    /\ calStep = "boundaries"
    /\ lastDayOfMonth' = getLastDayOfPersianMonth(persianYear, persianMonth)
    /\ calStep' = "lastDay"
    /\ UNCHANGED <<givenDate, jalaaliDate, gregorianDate, persianDateStr, parsedDate,
                   isValidDate, persianYear, persianMonth, monthDays, yearBoundaries,
                   fiscalYear>>

SetFiscalYear ==
    /\ calStep = "today"
    /\ \E yearOffset \in HookYearOffsets :
           fiscalYear' = setFiscalYear(givenDate.day, yearOffset)
    /\ calStep' = "fiscalYear"
    /\ UNCHANGED <<givenDate, jalaaliDate, gregorianDate, persianDateStr, parsedDate,
                   isValidDate, persianYear, persianMonth, monthDays, yearBoundaries,
                   lastDayOfMonth>>

SetPersianFiscalYear ==
    /\ calStep = "today"
    /\ \E yearOffset \in FormYearOffsets :
           fiscalYear' = setPersianFiscalYear(givenDate.day, yearOffset)
    /\ calStep' = "persianFiscalYear"
    /\ UNCHANGED <<givenDate, jalaaliDate, gregorianDate, persianDateStr, parsedDate,
                   isValidDate, persianYear, persianMonth, monthDays, yearBoundaries,
                   lastDayOfMonth>>

CalendarNext ==
    /\ \/ GregorianToJalaali
       \/ JalaaliToGregorian
       \/ ParsePersianDate
       \/ ValidatePersianDate
       \/ GetPersianMonthDays
       \/ GetPersianYearBoundaries
       \/ GetLastDayOfPersianMonth
       \/ SetFiscalYear
       \/ SetPersianFiscalYear
    /\ UNCHANGED <<ledgerVars, cardexVars, companyVars>>

CalendarSpec == CalendarInit /\ [][CalendarNext]_vars

(***************************************************************************)
(* Claims about calculateRialCardex, checked under CardexSpec.             *)
(***************************************************************************)
\* The running balance just before row i of processedEntries.
quantityBefore(i) == IF i = 1 THEN 0 ELSE processedEntries[i - 1].balanceQuantity
totalBefore(i) == IF i = 1 THEN Zero ELSE processedEntries[i - 1].balanceTotalPrice

\* n/d as a fraction times the integer k.
Times(k, f) == Frac(k * f.num, f.den)

\* C1: every SALE_INVOICE row has outTotalPrice = outQuantity * (total / quantity)
\* of the balance held just before it (0 when that quantity is not > 0), records
\* the document's unitPrice as outUnitPrice, and the balance after it is the
\* balance before it less outQuantity and outTotalPrice (floored at 0): the
\* document's unit price is in neither.
C1_SaleAtMovingAverage ==
    \A i \in 1..Len(processedEntries) :
        cardexEntries[i].documentType = "SALE_INVOICE" =>
            LET row == processedEntries[i]
                q0 == quantityBefore(i)
                t0 == totalBefore(i)
                average == IF q0 > 0 THEN Frac(t0.num, t0.den * q0) ELSE Zero
                cost == Times(Abs(cardexEntries[i].quantity), average)
                rest == FSub(t0, cost)
            IN  /\ row.outQuantity = Abs(cardexEntries[i].quantity)
                /\ row.outTotalPrice = cost
                /\ row.outUnitPrice = cardexEntries[i].unitPrice
                /\ row.balanceQuantity = (IF q0 - row.outQuantity < 0 THEN 0 ELSE q0 - row.outQuantity)
                /\ row.balanceTotalPrice = (IF rest.num < 0 THEN Zero ELSE rest)

\* A sale out of a positive balance whose stated unit price is not the average.
C1_Witness ==
    \E i \in 1..Len(processedEntries) :
        /\ cardexEntries[i].documentType = "SALE_INVOICE"
        /\ quantityBefore(i) > 0
        /\ FromInt(cardexEntries[i].unitPrice * quantityBefore(i)) # totalBefore(i)
        /\ processedEntries[i].outTotalPrice # Zero

\* The documents of the scenario of C2, as the query returns them (latest first).
IsItem(item, productId, quantity, unitPrice) ==
    /\ item.product.id = productId
    /\ item.quantity = quantity
    /\ item.unitPrice = unitPrice
    /\ item.totalPrice = quantity * unitPrice

C2_Scenario ==
    /\ Len(fetched) = 3
    /\ fetched[3].date < fetched[2].date /\ fetched[2].date < fetched[1].date
    /\ fetched[3].documentType = "INITIAL_STOCK"
    /\ Len(fetched[3].items) = 1 /\ IsItem(fetched[3].items[1], selectedProduct, 10, 100)
    /\ fetched[2].documentType = "PURCHASE_INVOICE"
    /\ Len(fetched[2].items) = 1 /\ IsItem(fetched[2].items[1], selectedProduct, 10, 200)
    /\ fetched[1].documentType = "SALE_INVOICE"
    /\ Len(fetched[1].items) = 1
    /\ fetched[1].items[1].product.id = selectedProduct
    /\ fetched[1].items[1].quantity = 5

HasBalance(row, quantity, unitPrice, totalPrice) ==
    /\ row.balanceQuantity = quantity
    /\ row.balanceUnitPrice = FromInt(unitPrice)
    /\ row.balanceTotalPrice = FromInt(totalPrice)

\* C2: INITIAL_STOCK 10 @ 100, then PURCHASE_INVOICE 10 @ 200, then SALE_INVOICE
\* of 5 at any unit price give the balances (10, 100, 1000), (20, 150, 3000) and
\* (15, 150, 2250), the sale costed at 750.
C2_Scenario_Balances ==
    (pc = "done" /\ C2_Scenario) =>
        /\ Len(rialCardexData) = 3
        /\ HasBalance(rialCardexData[1], 10, 100, 1000)
        /\ HasBalance(rialCardexData[2], 20, 150, 3000)
        /\ rialCardexData[3].outTotalPrice = FromInt(750)
        /\ HasBalance(rialCardexData[3], 15, 150, 2250)

\* The scenario has been computed, the sale stated at a price other than 150.
C2_Witness ==
    /\ pc = "done"
    /\ C2_Scenario
    /\ fetched[1].items[1].unitPrice = 300

\* Incoming less outgoing quantity over all candidates of the product.
RECURSIVE NetQuantity(_)
NetQuantity(entries) ==
    IF entries = <<>> THEN 0
    ELSE (IF Head(entries).documentType \in {"INITIAL_STOCK", "PURCHASE_INVOICE"}
          THEN Abs(Head(entries).quantity)
          ELSE IF Head(entries).documentType = "SALE_INVOICE"
          THEN -Abs(Head(entries).quantity) ELSE 0)
         + NetQuantity(Tail(entries))

\* C3: when the documents' cumulative net quantity is not negative, the balance
\* quantity and the balance total are >= 0 after every step.
C3_BalanceNeverNegative ==
    NetQuantity(collectEntries(fetched, selectedProduct)) >= 0 =>
        /\ balanceQuantity >= 0
        /\ balanceTotalPrice.num >= 0
        /\ \A i \in 1..Len(processedEntries) :
              /\ processedEntries[i].balanceQuantity >= 0
              /\ processedEntries[i].balanceTotalPrice.num >= 0

\* A sale dated before the receipt that covers it: the net quantity is not
\* negative, yet the sale exceeds the balance it meets.
C3_Witness ==
    /\ pc = "done"
    /\ NetQuantity(cardexEntries) >= 0
    /\ \E i \in 1..Len(processedEntries) :
          /\ cardexEntries[i].documentType = "SALE_INVOICE"
          /\ processedEntries[i].outQuantity > quantityBefore(i)
          /\ processedEntries[i].balanceQuantity = 0

\* C4: the balance of calculateProductMovements equals the balance of the last
\* cardex row of the same product and documents.
C4_SummaryEqualsCardex ==
    (pc = "done" /\ rialCardexData # <<>>) =>
        LET last == rialCardexData[Len(rialCardexData)]
            summary == calculateProductMovements(selectedProduct, fetched)
        IN  /\ summary.balance.quantity = last.balanceQuantity
            /\ FromInt(summary.balance.totalPrice) = last.balanceTotalPrice

(***************************************************************************)
(* Claims about the document ledger, checked under Spec.                   *)
(***************************************************************************)
\* The stored documents with isFinalized set exactly on the ids in `finalized`.
withFinalized(docs, finalized) ==
    [i \in 1..Len(docs) |-> [docs[i] EXCEPT !.isFinalized = (docs[i].id \in finalized)]]

\* C5: the cardex of every product is the same whatever the isFinalized flags of
\* the stored documents are (same documents, same retrieval order, any flags),
\* and a finalizeDocument step leaves every product's cardex as it was.
C5_FlagsIndependent ==
    \A productId \in ProductIds : \A order \in RetrievalOrders(documents) :
        \A finalized \in SUBSET (1..Len(documents)) :
            calculateRialCardex(productId, getDocuments(withFinalized(documents, finalized), order))
                = calculateRialCardex(productId, getDocuments(documents, order))

C5_FinalizeKeepsCardex ==
    response'.op = "finalizeDocument" =>
        /\ RetrievalOrders(documents') = RetrievalOrders(documents)
        /\ \A productId \in ProductIds : \A order \in RetrievalOrders(documents) :
              calculateRialCardex(productId, getDocuments(documents', order))
                  = calculateRialCardex(productId, getDocuments(documents, order))

C5_CardexIgnoresFinalized == []C5_FlagsIndependent /\ [][C5_FinalizeKeepsCardex]_vars

\* finalizeDocument has finalized a draft invoice that is in a product's cardex,
\* next to a document that is still a draft.
C5_Witness ==
    /\ response.op = "finalizeDocument" /\ response.ok
    /\ \E i, j \in 1..Len(documents) :
          /\ documents[i].documentType # "INITIAL_STOCK" /\ documents[i].isFinalized
          /\ ~documents[j].isFinalized
          /\ Len(calculateRialCardex("p1", getDocuments(documents,
                    CHOOSE order \in RetrievalOrders(documents) : TRUE))) = 2

\* The inputs C6 names: no items, an item with quantity <= 0 or unitPrice < 0, a
\* purchase invoice without supplier, a sale invoice without customer.
Rejectable(input) ==
    \/ Len(input.items) = 0
    \/ \E i \in 1..Len(input.items) :
          input.items[i].quantity <= 0 \/ input.items[i].unitPrice < 0
    \/ input.documentType = "PURCHASE_INVOICE" /\ input.supplierId = NoId
    \/ input.documentType = "SALE_INVOICE" /\ input.customerId = NoId

\* C6: every createDocument step on such an input throws and leaves the stored
\* documents and the stored movements exactly as they were; that is, a step that
\* returns or changes the ledger is not a createDocument step on such an input.
C6_RejectedCreateStep ==
    \/ /\ ~response'.ok
       /\ documents' = documents
       /\ movements' = movements
    \/ \A input \in CreateInputs :
          Rejectable(input) =>
              \A failAt \in 0..Len(input.items) : ~createDocument(input, failAt)

C6_InvalidCreateRejected == [][C6_RejectedCreateStep]_vars

\* A purchase invoice without supplier, or a sale invoice without customer, was
\* refused while the ledger held a document and its movements.
C6_Witness ==
    /\ response.op = "createDocument"
    /\ response.error \in {"SUPPLIER_REQUIRED", "CUSTOMER_REQUIRED"}
    /\ Len(documents) = 1
    /\ Len(movements) = 2

\* The number of `input` is already held by a stored document of its type.
Duplicate(input) ==
    \E i \in 1..Len(documents) :
        /\ documents[i].documentType = input.documentType
        /\ documents[i].documentNumber = input.documentNumber

\* C7: no two stored documents share (documentType, documentNumber).
C7_UniquePerType ==
    \A i, j \in 1..Len(documents) :
        i # j => ~(/\ documents[i].documentType = documents[j].documentType
                   /\ documents[i].documentNumber = documents[j].documentNumber)

\* C7: an otherwise valid createDocument whose number is held by documents of
\* other types only can return.
C7_OtherTypeAccepted ==
    \A input \in CreateInputs :
        (/\ ~Rejectable(input)
         /\ ~Duplicate(input)
         /\ \E i \in 1..Len(documents) : documents[i].documentNumber = input.documentNumber
         /\ Len(documents) < MaxDocs)
            => ENABLED (createDocument(input, 0) /\ response'.ok)

\* C7: a createDocument step whose number exists for its type throws and creates
\* no document and no movement.
C7_DuplicateCreateStep ==
    \/ /\ ~response'.ok
       /\ documents' = documents
       /\ movements' = movements
    \/ \A input \in CreateInputs :
          Duplicate(input) =>
              \A failAt \in 0..Len(input.items) : ~createDocument(input, failAt)

C7_NumberUniquePerType ==
    /\ [](C7_UniquePerType /\ C7_OtherTypeAccepted)
    /\ [][C7_DuplicateCreateStep]_vars

\* Two documents of different types hold the same number, and a further
\* createDocument was refused as a duplicate.
C7_Witness ==
    /\ response.op = "createDocument"
    /\ response.error = "DUPLICATE_NUMBER"
    /\ \E i, j \in 1..Len(documents) :
          /\ documents[i].documentNumber = documents[j].documentNumber
          /\ documents[i].documentType # documents[j].documentType

\* C8: a createDocument step that throws (a movement write failed after the
\* document write) leaves neither the document nor any of its movements in the
\* ledger.
C8_FailedCreateStep ==
    (response'.op = "createDocument" /\ ~response'.ok) =>
        /\ documents' = documents
        /\ movements' = movements

C8_CreateAllOrNothing == [][C8_FailedCreateStep]_vars

\* The movement type C9 states for each document type.
C9_Mapping ==
    [t \in DocumentType |->
        CASE t = "INITIAL_STOCK"    -> "INITIAL_STOCK"
          [] t = "PURCHASE_INVOICE" -> "PURCHASE"
          [] t = "SALE_INVOICE"     -> "SALE"
          [] t = "STOCK_ADJUSTMENT" -> "ADJUSTMENT_IN"]

\* The sign rule: negative exactly for SALE and ADJUSTMENT_OUT, positive otherwise.
C9_SignRule(m) ==
    IF m.movementType \in {"SALE", "ADJUSTMENT_OUT"} THEN m.quantity < 0 ELSE m.quantity > 0

\* C9: a createDocument step that returns appends the document and, after the
\* movements already stored, exactly one movement per line item, in item order,
\* of the item's product, quantity (signed) and unit price, dated with the
\* document date, referencing the document, of the mapped type.
C9_SuccessfulCreateStep ==
    (response'.op = "createDocument" /\ response'.ok) =>
        /\ Len(documents') = Len(documents) + 1
        /\ LET doc == documents'[Len(documents')]
           IN  /\ Len(movements') = Len(movements) + Len(doc.items)
               /\ SubSeq(movements', 1, Len(movements)) = movements
               /\ \A k \in 1..Len(doc.items) :
                     LET m == movements'[Len(movements) + k]
                     IN  /\ m.document = doc.id
                         /\ m.date = doc.date
                         /\ m.product = doc.items[k].product
                         /\ Abs(m.quantity) = doc.items[k].quantity
                         /\ m.unitPrice = doc.items[k].unitPrice
                         /\ m.movementType = C9_Mapping[doc.documentType]
                         /\ C9_SignRule(m)

\* C9: the sign rule holds for every stored movement.
C9_StoredSigns == \A k \in 1..Len(movements) : C9_SignRule(movements[k])

C9_MovementPerItem == []C9_StoredSigns /\ [][C9_SuccessfulCreateStep]_vars

\* A sale invoice was created after an initial stock: four movements, the
\* sale's negative, the stock's positive.
C9_Witness ==
    /\ response.op = "createDocument" /\ response.ok
    /\ Len(documents) = 2 /\ Len(movements) = 4
    /\ movements[1].movementType = "INITIAL_STOCK" /\ movements[1].quantity > 0
    /\ movements[3].movementType = "SALE" /\ movements[3].quantity < 0
    /\ movements[3].document = 2

\* C10: every stored document has item totalPrice = quantity * unitPrice and
\* totalAmount = the sum of its items' totalPrice.
C10_TotalsConsistent ==
    \A i \in 1..Len(documents) :
        /\ \A k \in 1..Len(documents[i].items) :
              documents[i].items[k].totalPrice =
                  documents[i].items[k].quantity * documents[i].items[k].unitPrice
        /\ documents[i].totalAmount = SumTotalPrice(documents[i].items)

\* A created document next to one whose items updateDocument has replaced.
C10_Witness ==
    /\ response.op = "updateDocument" /\ response.ok
    /\ \E i, j \in 1..Len(documents) :
          /\ Len(documents[i].items) = 2 /\ documents[i].totalAmount = 22
          /\ Len(documents[j].items) = 1 /\ documents[j].totalAmount = 20

\* C11: the document a createDocument step stores has isFinalized = TRUE if and
\* only if its documentType is INITIAL_STOCK.
C11_CreatedStep ==
    (response'.op = "createDocument" /\ Len(documents') = Len(documents) + 1) =>
        LET doc == documents'[Len(documents')]
        IN  doc.isFinalized <=> (doc.documentType = "INITIAL_STOCK")

C11_FinalizedIffInitialStock == [][C11_CreatedStep]_vars

\* An initial stock was stored finalized, then a purchase invoice as a draft.
C11_Witness ==
    /\ response.op = "createDocument" /\ response.ok
    /\ Len(documents) = 2
    /\ documents[1].documentType = "INITIAL_STOCK" /\ documents[1].isFinalized
    /\ documents[2].documentType = "PURCHASE_INVOICE" /\ ~documents[2].isFinalized

\* C12: a finalized document is still stored and finalized after every step.
C12_StaysFinalized ==
    \A i \in 1..Len(documents) :
        documents[i].isFinalized =>
            /\ i <= Len(documents')
            /\ documents'[i].isFinalized

\* C12: finalizeDocument on an already finalized document returns without error
\* and leaves its isFinalized, items and totalAmount as they were.
C12_FinalizeTwiceStep ==
    response'.op = "finalizeDocument" =>
        \A id \in DocIds :
            (/\ id <= Len(documents)
             /\ documents[id].isFinalized
             /\ finalizeDocument(id))
                => /\ response'.ok
                   /\ documents'[id].isFinalized
                   /\ documents'[id].items = documents[id].items
                   /\ documents'[id].totalAmount = documents[id].totalAmount

C12_FinalizationOneWay == [][C12_StaysFinalized /\ C12_FinalizeTwiceStep]_vars

\* finalizeDocument has returned on the only stored document, an initial stock,
\* which was finalized from its creation.
C12_Witness ==
    /\ response.op = "finalizeDocument" /\ response.ok
    /\ Len(documents) = 1
    /\ documents[1].documentType = "INITIAL_STOCK"
    /\ documents[1].isFinalized

\* C13: an updateDocument step does not replace the items or change the
\* totalAmount of a document that is finalized.
C13_UpdateStep ==
    response'.op = "updateDocument" =>
        \A i \in 1..Len(documents) :
            documents[i].isFinalized =>
                /\ documents'[i].items = documents[i].items
                /\ documents'[i].totalAmount = documents[i].totalAmount

C13_FinalizedNotEdited == [][C13_UpdateStep]_vars

\* C14: updateDocument, finalizeDocument and deleteDocument steps leave the
\* stored movements unchanged, and no step modifies or removes a stored movement.
C14_MovementsStep ==
    /\ response'.op \in {"updateDocument", "finalizeDocument", "deleteDocument"}
          => movements' = movements
    /\ Len(movements') >= Len(movements)
    /\ SubSeq(movements', 1, Len(movements)) = movements

C14_MovementsWriteOnce == [][C14_MovementsStep]_vars

\* A sale invoice of two items was updated to one item, finalized and deleted:
\* its two movements are still stored.
C14_Witness ==
    /\ response.op = "deleteDocument" /\ response.value = "true"
    /\ Len(documents) = 1
    /\ Len(documents[1].items) = 1
    /\ documents[1].documentType = "SALE_INVOICE" /\ documents[1].isFinalized
    /\ Len(movements) = 2
    /\ \A k \in 1..2 : movements[k].document = 1

\* C15: a deleteDocument(id) step returns true exactly when document id exists,
\* marks that document inactive, removes no document, and leaves what
\* getDocuments returns, hence every product's cardex, as it was apart from the
\* mark.
C15_DeleteStep ==
    response'.op = "deleteDocument" =>
        \A id \in DocIds :
            deleteDocument(id) =>
                /\ (response'.value = "true") <=> (id \in 1..Len(documents))
                /\ Len(documents') = Len(documents)
                /\ \A i \in 1..Len(documents) : documents'[i].id = documents[i].id
                /\ RetrievalOrders(documents') = RetrievalOrders(documents)
                /\ \A productId \in ProductIds : \A order \in RetrievalOrders(documents) :
                      calculateRialCardex(productId, getDocuments(documents', order))
                          = calculateRialCardex(productId, getDocuments(documents, order))
                /\ id \in 1..Len(documents) => documents'[id].isActive = "false"

C15_SoftDelete == [][C15_DeleteStep]_vars

(***************************************************************************)
(* Claims about the company singleton, checked under CompanySpec.          *)
(***************************************************************************)
\* C16: at most one stored company has isActive = TRUE.
C16_AtMostOneActive ==
    \A i, j \in 1..Len(companies) :
        (companies[i].isActive /\ companies[j].isActive) => i = j

\* C16: the step on which a call returns stores a new record, active, after the
\* records already stored, which are all kept and inactive.
C16_ReturnStep ==
    \A c \in Callers :
        (callers[c] = "deactivated" /\ callers'[c] = "returned") =>
            /\ Len(companies') = Len(companies) + 1
            /\ companies'[Len(companies')].isActive
            /\ \A i \in 1..Len(companies) :
                  /\ companies'[i].id = companies[i].id
                  /\ companies'[i].name = companies[i].name
                  /\ ~companies'[i].isActive

C16_SingleActiveCompany == []C16_AtMostOneActive /\ [][C16_ReturnStep]_vars

\* Two calls overlapped: both deactivated, one created the active record and the
\* other's create was refused; an earlier record is stored, inactive.
C16_Witness ==
    /\ callers["a"] = "returned" /\ callers["b"] = "threw"
    /\ Len(companies) = 2
    /\ ~companies[1].isActive /\ companies[2].isActive

(***************************************************************************)
(* Claims about the Persian calendar layer, checked under CalendarSpec.    *)
(***************************************************************************)
\* C17: jalaaliToGregorian(gregorianToJalaali(d)) is the day d, for every day d
\* of the Jalaali centuries covered; the Jalaali date in between is a date of
\* the calendar.
C17_RoundTrip ==
    /\ calStep \in {"jalaali", "gregorian"} =>
          /\ jalaaliDate.jy \in JalaaliYears
          /\ jalaaliDate.jm \in 1..12
          /\ jalaaliDate.jd \in 1..31
    /\ calStep = "gregorian" => gregorianDate = givenDate

\* The leap day 30 Esfand 1403 has made the round trip.
C17_Witness ==
    /\ calStep = "gregorian"
    /\ jalaaliDate = [jy |-> 1403, jm |-> 12, jd |-> 30]
    /\ gregorianDate = givenDate

\* C18: getPersianMonthDays(year, month) is 31 for months 1-6, 30 for months
\* 7-11, and for month 12 it is 30 when isPersianLeapYear(year) and 29 otherwise;
\* 1403 is a leap year with 30 days of Esfand, 1402 is not and has 29.
C18_MonthDays ==
    calStep \in {"monthDays", "boundaries"} =>
        /\ persianMonth \in 1..6 => monthDays = 31
        /\ persianMonth \in 7..11 => monthDays = 30
        /\ persianMonth = 12 =>
              /\ isPersianLeapYear(persianYear) => monthDays = 30
              /\ ~isPersianLeapYear(persianYear) => monthDays = 29
        /\ (persianYear = 1403 /\ persianMonth = 12) =>
              isPersianLeapYear(1403) /\ monthDays = 30
        /\ (persianYear = 1402 /\ persianMonth = 12) =>
              ~isPersianLeapYear(1402) /\ monthDays = 29

\* The length of Esfand 1403 has been computed.
C18_Witness ==
    /\ calStep = "monthDays"
    /\ persianYear = 1403 /\ persianMonth = 12
    /\ monthDays = 30

\* What C19 calls an input of 3 numeric parts: after trimming and digit
\* normalisation, three non-empty runs of decimal digits separated by '/'.
numericPart(part) == part # <<>> /\ \A i \in 1..Len(part) : isDigit(part[i])

C19_Parts(str) == split(persianToEnglish(trim(str)), <<>>)

C19_ThreeNumericParts(str) ==
    /\ Len(C19_Parts(str)) = 3
    /\ \A i \in 1..3 : numericPart(C19_Parts(str)[i])

\* The cases in which C19 says the result is null.
C19_MustBeNull(str) ==
    \/ ~C19_ThreeNumericParts(str)
    \/ LET jy == digitsPrefix(C19_Parts(str)[1], 0)
           jm == digitsPrefix(C19_Parts(str)[2], 0)
           jd == digitsPrefix(C19_Parts(str)[3], 0)
       IN  \/ jm < 1 \/ jm > 12
           \/ jd < 1
           \/ jd > getPersianMonthDays(jy, jm)

\* C19: parsePersianDate returns null exactly in those cases and otherwise the
\* Gregorian date of the Jalaali date written; validatePersianDate is true
\* exactly when parsePersianDate is not null.
C19_ParseNullExactly ==
    /\ calStep \in {"parsed", "validated"} =>
          /\ parsedDate.null <=> C19_MustBeNull(persianDateStr)
          /\ ~parsedDate.null =>
                gregorianToJalaali(parsedDate.day) =
                    [jy |-> digitsPrefix(C19_Parts(persianDateStr)[1], 0),
                     jm |-> digitsPrefix(C19_Parts(persianDateStr)[2], 0),
                     jd |-> digitsPrefix(C19_Parts(persianDateStr)[3], 0)]
    /\ calStep = "validated" => (isValidDate <=> ~parsedDate.null)

\* C20: getPersianYearBoundaries(y) starts on 1 Farvardin of y and ends on the
\* last day of Esfand of y, day 30 when y is a leap year and 29 otherwise (the
\* day after it is 1 Farvardin of y + 1); 30 Esfand 1403 and 29 Esfand 1402.
C20_YearBoundaries ==
    calStep = "boundaries" =>
        LET start == gregorianToJalaali(yearBoundaries.start.day)
            end == gregorianToJalaali(yearBoundaries.end.day)
            next == gregorianToJalaali(dayAfter(yearBoundaries.end.day))
        IN  /\ ~yearBoundaries.start.null /\ ~yearBoundaries.end.null
            /\ start = [jy |-> persianYear, jm |-> 1, jd |-> 1]
            /\ end = [jy |-> persianYear, jm |-> 12,
                      jd |-> IF isPersianLeapYear(persianYear) THEN 30 ELSE 29]
            /\ next = [jy |-> persianYear + 1, jm |-> 1, jd |-> 1]
            /\ persianYear = 1403 => end.jd = 30
            /\ persianYear = 1402 => end.jd = 29

\* The boundaries of the leap year 1403 have been computed.
C20_Witness ==
    /\ calStep = "boundaries"
    /\ persianYear = 1403
    /\ gregorianToJalaali(yearBoundaries.end.day) = [jy |-> 1403, jm |-> 12, jd |-> 30]

(***************************************************************************)
(* Claims about the fiscal-year helpers, checked under CalendarSpec.       *)
(***************************************************************************)

\* C21: every helper that sets a fiscal year produces a start on 1 Farvardin
\* and an end on the last day of Esfand (29, or 30 in a leap year) of the same
\* Persian year.
C21_FiscalYearComputed ==
    calStep \in {"fiscalYear", "persianFiscalYear"} =>
        LET start == gregorianToJalaali(fiscalYear.start.day)
            end   == gregorianToJalaali(fiscalYear.end.day)
        IN  /\ start.jm = 1 /\ start.jd = 1
            /\ end.jy = start.jy
            /\ end.jm = 12
            /\ end.jd = getPersianMonthDays(start.jy, 12)

(***************************************************************************)
(* Further claims about calculateRialCardex, checked under CardexSpec.     *)
(***************************************************************************)

\* The (document, item) positions of the query result whose item is of the
\* selected product.
ProductPairs ==
    UNION { { <<d, i>> : i \in { j \in 1..Len(fetched[d].items) :
                                   fetched[d].items[j].product.id = selectedProduct } } :
            d \in 1..Len(fetched) }

\* p comes before q: an earlier date, or the same date and retrieved earlier.
PairBefore(p, q) ==
    \/ fetched[p[1]].date < fetched[q[1]].date
    \/ /\ fetched[p[1]].date = fetched[q[1]].date
       /\ \/ p[1] < q[1]
          \/ p[1] = q[1] /\ p[2] < q[2]

\* The pair that has k - 1 pairs before it.
PairAt(k) ==
    CHOOSE p \in ProductPairs : Cardinality({ q \in ProductPairs : PairBefore(q, p) }) = k - 1

\* C22: the candidates are exactly one entry per (document, item) pair of the
\* selected product, in ascending date order, equal dates in retrieval order.
C22_OneEntryPerItemInDateOrder ==
    pc # "query" =>
        /\ Len(cardexEntries) = Cardinality(ProductPairs)
        /\ \A k \in 1..Len(cardexEntries) :
               LET doc  == fetched[PairAt(k)[1]]
                   item == doc.items[PairAt(k)[2]]
                   e    == cardexEntries[k]
               IN  /\ e.date = doc.date
                   /\ e.documentType = doc.documentType
                   /\ e.documentNumber = doc.documentNumber
                   /\ e.quantity = item.quantity
                   /\ e.unitPrice = item.unitPrice
                   /\ e.totalPrice = item.totalPrice

\* Two documents of one date and a two-item document have been collected.
C22_Witness ==
    /\ pc = "done"
    /\ Len(cardexEntries) = 4
    /\ \E k \in 1..3 :
          /\ cardexEntries[k].date = cardexEntries[k + 1].date
          /\ cardexEntries[k].documentNumber # cardexEntries[k + 1].documentNumber
    /\ \E k \in 1..3 :
          /\ cardexEntries[k].documentNumber = cardexEntries[k + 1].documentNumber
          /\ cardexEntries[k].quantity # cardexEntries[k + 1].quantity

\* The orderings of the candidates that move entries only among equal dates.
SameDateOrderings ==
    LET n == Len(cardexEntries)
    IN  { [k \in 1..n |-> cardexEntries[f[k]]] :
          f \in { g \in [1..n -> 1..n] :
                    /\ \A i, j \in 1..n : i # j => g[i] # g[j]
                    /\ \A i \in 1..n : cardexEntries[g[i]].date = cardexEntries[i].date } }

\* The balance the loop ends with on the given candidates.
FinalBalance(entries) ==
    LET rows == processAll(0, Zero, entries)
    IN  IF rows = <<>> THEN <<0, Zero>>
        ELSE <<rows[Len(rows)].balanceQuantity, rows[Len(rows)].balanceTotalPrice>>

\* Some date holds both a sale and an incoming entry.
MixedDate ==
    \E i, j \in 1..Len(cardexEntries) :
        /\ cardexEntries[i].date = cardexEntries[j].date
        /\ cardexEntries[i].documentType = "SALE_INVOICE"
        /\ cardexEntries[j].documentType \in {"INITIAL_STOCK", "PURCHASE_INVOICE"}

\* C23 as stated: every ordering of same-date entries gives the same final
\* balanceQuantity and balanceTotalPrice.
C23_TieOrderIrrelevant ==
    pc = "done" =>
        \A entries \in SameDateOrderings :
            FinalBalance(entries) = <<balanceQuantity, balanceTotalPrice>>

\* C23 amended: when no date holds both a sale and an incoming entry, every
\* ordering of same-date entries gives the same final balanceQuantity and
\* balanceTotalPrice.
C23_TieOrderIrrelevantUnmixed ==
    (pc = "done" /\ ~MixedDate) =>
        \A entries \in SameDateOrderings :
            FinalBalance(entries) = <<balanceQuantity, balanceTotalPrice>>

\* Two sales of one date, one within and one beyond the stock on hand, have
\* been processed after a receipt of an earlier date.
C23_Witness ==
    /\ pc = "done"
    /\ ~MixedDate
    /\ Len(processedEntries) = 3
    /\ processedEntries[1].inQuantity > 0
    /\ processedEntries[2].date = processedEntries[3].date
    /\ processedEntries[2].outQuantity > 0
    /\ processedEntries[3].outQuantity > processedEntries[2].outQuantity
    /\ processedEntries[2].balanceQuantity > 0

\* The balance before row k of the processed entries.
BalanceBefore(k) ==
    IF k = 1 THEN <<0, Zero>>
    ELSE <<processedEntries[k - 1].balanceQuantity, processedEntries[k - 1].balanceTotalPrice>>

\* C24: a STOCK_ADJUSTMENT line of the product still gets a row; the row's in
\* and out quantities and totals are zero and its balance is the balance of
\* the row before it (zero if it is the first).
C24_AdjustmentRowIsNeutral ==
    /\ \A k \in 1..Len(processedEntries) :
          processedEntries[k].documentType = "STOCK_ADJUSTMENT" =>
              /\ processedEntries[k].inQuantity = 0
              /\ processedEntries[k].inTotalPrice = 0
              /\ processedEntries[k].outQuantity = 0
              /\ processedEntries[k].outTotalPrice = Zero
              /\ <<processedEntries[k].balanceQuantity,
                    processedEntries[k].balanceTotalPrice>> = BalanceBefore(k)
    /\ pc = "done" =>
          \A d \in 1..Len(fetched) :
              (fetched[d].documentType = "STOCK_ADJUSTMENT" /\ hasProduct(fetched[d], selectedProduct))
                  => \E k \in 1..Len(rialCardexData) :
                         /\ rialCardexData[k].documentNumber = fetched[d].documentNumber
                         /\ rialCardexData[k].documentType = "STOCK_ADJUSTMENT"

\* An adjustment row has been published after a receipt: its balance is the
\* receipt's, not zero.
C24_Witness ==
    /\ pc = "done"
    /\ \E k \in 2..Len(rialCardexData) :
          /\ rialCardexData[k].documentType = "STOCK_ADJUSTMENT"
          /\ rialCardexData[k].balanceQuantity > 0
          /\ rialCardexData[k - 1].inQuantity > 0

(***************************************************************************)
(* Claims about the reports page, checked under PageSpec.                  *)
(***************************************************************************)

\* C25: when calculateRialCardex was started for product A and then for
\* product B before A's query had answered, then once both calls have
\* returned the displayed rows are those of B, the selected product.
C25_DisplayedRowsOfSelectedProduct ==
    ( /\ Len(calls) = 2
      /\ calls[1].productId # calls[2].productId
      /\ calls[1].at = "returned"
      /\ calls[2].at = "returned"
      /\ selectedProduct = calls[2].productId )
    => rialCardexData = calculateRialCardex(selectedProduct, fetched)

(***************************************************************************)
(* Claims about Document.save(), checked under SaveSpec.                   *)
(***************************************************************************)

\* C26: whatever item totals and total amount the instance was given, the
\* stored document has each item's totalPrice = quantity * unitPrice and
\* totalAmount = the sum of those recomputed item totals.
C26_SuppliedTotalsNotTrusted ==
    (response.op = "save" /\ response.ok) =>
        LET stored == documents[Len(documents)]
        IN  /\ \A i \in 1..Len(stored.items) :
                  stored.items[i].totalPrice = stored.items[i].quantity * stored.items[i].unitPrice
            /\ stored.totalAmount =
                  SumTotalPrice([i \in 1..Len(unsaved.items) |->
                      [totalPrice |-> unsaved.items[i].quantity * unsaved.items[i].unitPrice]])

(***************************************************************************)
(* Claims about the report over items of a missing product, checked under  *)
(* ReportSpec.                                                             *)
(***************************************************************************)

\* The stored document a fetched document was read from.
StoredOf(doc) == documents[doc.id]

\* The fetched documents less the items that carry the placeholder product.
RECURSIVE withoutPlaceholders(_)
withoutPlaceholders(docs) ==
    IF docs = <<>> THEN <<>>
    ELSE <<[Head(docs) EXCEPT !.items =
               SelectSeq(Head(docs).items, LAMBDA item : item.product # placeholderProduct)]>>
         \o withoutPlaceholders(Tail(docs))

\* C27: getDocuments returns an item whose product is gone with the
\* placeholder product (inactive, code DELETED) and its stored quantity and
\* prices; the rows calculateRialCardex sets for a real product are those it
\* gives without such items.
C27_MissingProductPlaceholder ==
    /\ pc # "idle" =>
          /\ Len(fetched) = Len(documents)
          /\ \A d \in 1..Len(fetched) : \A k \in 1..Len(StoredOf(fetched[d]).items) :
                LET stored == StoredOf(fetched[d]).items[k]
                    item   == fetched[d].items[k]
                IN  /\ item.quantity = stored.quantity
                    /\ item.unitPrice = stored.unitPrice
                    /\ item.totalPrice = stored.totalPrice
                    /\ stored.product \notin ProductIds =>
                          /\ item.product.code = "DELETED"
                          /\ ~item.product.isActive
                          /\ item.product.id \notin ProductIds \cup {stored.product}
    /\ pc = "done" =>
          rialCardexData = calculateRialCardex(selectedProduct, withoutPlaceholders(fetched))

\* The report of p1 has been made over a document that holds an item of p1
\* and an item of the missing product.
C27_Witness ==
    /\ pc = "done"
    /\ selectedProduct = "p1"
    /\ Len(rialCardexData) > 0
    /\ \E d \in 1..Len(fetched) :
          /\ Len(fetched[d].items) = 2
          /\ fetched[d].items[1].product = placeholderProduct
          /\ fetched[d].items[2].product.id = "p1"
          /\ StoredOf(fetched[d]).items[1].product = DeletedProductId

(***************************************************************************)
(* Claims about the average and the conservation of the cardex balance,    *)
(* checked under CardexSpec.                                               *)
(***************************************************************************)

\* balanceUnitPrice of the row before row k (0 before the first).
UnitPriceBefore(k) == IF k = 1 THEN Zero ELSE processedEntries[k - 1].balanceUnitPrice

\* C28 as stated: a SALE_INVOICE row that leaves a positive balance quantity
\* has the balanceUnitPrice of the row before it, and a row whose
\* balanceUnitPrice differs from that of the row before it is an INITIAL_STOCK
\* or PURCHASE_INVOICE row.
C28_OnlyReceiptsChangeAverage ==
    \A k \in 1..Len(processedEntries) :
        LET row == processedEntries[k]
        IN  /\ (row.documentType = "SALE_INVOICE" /\ row.balanceQuantity > 0)
                  => row.balanceUnitPrice = UnitPriceBefore(k)
            /\ row.balanceUnitPrice # UnitPriceBefore(k)
                  => row.documentType \in {"INITIAL_STOCK", "PURCHASE_INVOICE"}

\* C28 amended: a SALE_INVOICE row that leaves a positive balance quantity has
\* the balanceUnitPrice of the row before it; a row whose balanceUnitPrice
\* differs from that of the row before it is an INITIAL_STOCK or
\* PURCHASE_INVOICE row, or a SALE_INVOICE row that leaves no balance quantity
\* and has balanceUnitPrice 0.
C28_SaleKeepsAverageWhileStockRemains ==
    \A k \in 1..Len(processedEntries) :
        LET row == processedEntries[k]
        IN  /\ (row.documentType = "SALE_INVOICE" /\ row.balanceQuantity > 0)
                  => row.balanceUnitPrice = UnitPriceBefore(k)
            /\ row.balanceUnitPrice # UnitPriceBefore(k)
                  => \/ row.documentType \in {"INITIAL_STOCK", "PURCHASE_INVOICE"}
                     \/ /\ row.documentType = "SALE_INVOICE"
                        /\ row.balanceQuantity = 0
                        /\ row.balanceUnitPrice = Zero

\* A sale stated at a unit price other than the average has left stock, and a
\* later sale has taken the rest.
C28_Witness ==
    \E k \in 2..Len(processedEntries) : \E j \in (k + 1)..Len(processedEntries) :
        /\ processedEntries[k].documentType = "SALE_INVOICE"
        /\ processedEntries[k].balanceQuantity > 0
        /\ FromInt(processedEntries[k].outUnitPrice) # UnitPriceBefore(k)
        /\ processedEntries[j].documentType = "SALE_INVOICE"
        /\ processedEntries[j].balanceQuantity = 0
        /\ UnitPriceBefore(j) # Zero

\* No sale among the processed rows exceeds the balance quantity it meets.
NoSaleExceedsBalance ==
    \A k \in 1..Len(processedEntries) :
        processedEntries[k].outQuantity <= quantityBefore(k)

\* The sum of a sequence of fractions.
RECURSIVE SumFractions(_)
SumFractions(fs) == IF fs = <<>> THEN Zero ELSE FAdd(Head(fs), SumFractions(Tail(fs)))

\* The sum of F over the first k processed rows.
SumOf(k, F(_)) == SumFractions([j \in 1..k |-> F(processedEntries[j])])

InQ(row) == FromInt(row.inQuantity)
OutQ(row) == FromInt(row.outQuantity)
InT(row) == FromInt(row.inTotalPrice)
OutT(row) == row.outTotalPrice

C30_YearsContiguous ==
    /\ calStep \in {"boundaries", "lastDay"} =>
          DateOf(dayAfter(yearBoundaries.end.day)) = getPersianYearBoundaries(persianYear + 1).start
    /\ (calStep = "lastDay" /\ persianMonth = 12) => lastDayOfMonth = yearBoundaries.end

\* The last day of Esfand of a leap year has been computed both ways.
C30_Witness ==
    /\ calStep = "lastDay"
    /\ persianMonth = 12
    /\ isPersianLeapYear(persianYear)
    /\ lastDayOfMonth = yearBoundaries.end
    /\ gregorianToJalaali(lastDayOfMonth.day).jd = 30

====
